---- MODULE Spec2Model ----
(***************************************************************************)
(* The POP3 fetch session of src/src/app/api/email/inbox/route.ts           *)
(* (fetchPOP3Emails): the closure variables of the promise body are the     *)
(* state, every socket listener and timer callback is one action.           *)
(*                                                                          *)
(* The lines a server sends are drawn from small sets; what the code does   *)
(* with their text (prefix tests, dot-unstuffing, header and MIME parsing,  *)
(* transfer decoding) is computed on the strings themselves, positions      *)
(* counted from 0 as in JavaScript. The string dataBuffer is kept in its    *)
(* split("\r\n") form: a sequence whose last element is the unterminated    *)
(* rest ("" when the buffer ends with a CRLF) and whose other elements are  *)
(* complete lines. A LET inside the string operators defines an operator    *)
(* of the value it names, so that each value is written once.               *)
(***************************************************************************)
EXTENDS Integers, Sequences, FiniteSets, TLC

(* ---------- bounds of the model (not program constants) ---------- *)
\* most complete lines one received chunk carries
MaxChunk == 3
\* most entries the server lists
MaxList == 2
\* most lines of one retrieved message
MaxData == 1
\* most STLS upgrades one session starts
MaxUpgrades == 1
\* most post-QUIT timers pending at once
MaxQuit == 1
\* most commands one connectivity test writes
MaxTestSent == 5
\* most lines of a message that arrives one line per chunk
MaxMail == 2
\* granularity of the clock, in ms
TickMs == 1000
\* the clock stops here, in ms
MaxTime == 30000

(* ---------- program constants ---------- *)
\* setTimeout(..., 25000)
FetchTimeoutMs == 25000
\* socket.setTimeout(20000)
SocketIdleMs == 20000
\* emailList.slice(-10)
FetchLimit == 10
\* parsedBody.substring(0, 5000)
BodyLimit == 5000

(* ---------- protocol lines ---------- *)
Lines == {"+OK", "-ERR", ".", "1 100", "..x"}
\* unterminated rests a chunk may end with; each names the line it becomes
Partials == {"+OK"}
Encryptions == {"ssl", "tls", "none"}
\* config.host and config.port as the messages show them
HostPort == "mail.example.com:995"
\* err.message of a socket 'error' event: a refused connection, a connection
\* attempt that timed out, a host name that does not resolve, a TLS handshake
\* with a server that does not speak TLS, a connection reset
Refused == "connect ECONNREFUSED 192.0.2.1:995"
TimedOut == "connect ETIMEDOUT 192.0.2.1:995"
NotFound == "getaddrinfo ENOTFOUND mail.example.com"
WrongVersion ==
  "write EPROTO 0:error:1408F10B:SSL routines:ssl3_get_record:wrong version number"
Reset == "read ECONNRESET"
ErrorMessages == {Refused, TimedOut, NotFound, WrongVersion, Reset}
\* the errors of a connection attempt
ConnectErrors == {Refused, TimedOut, NotFound}

\* line.startsWith(prefix)
StartsWith(line, prefix) ==
  Len(line) >= Len(prefix) /\ SubSeq(line, 1, Len(prefix)) = prefix
\* line.startsWith('+OK')
StartsWithOK(line) == StartsWith(line, "+OK")
\* line.startsWith('-ERR')
StartsWithERR(line) == StartsWith(line, "-ERR")
\* line.match(/^(\d+)\s+(\d+)$/)
ListMatch(line) == line \in {"1 100", "2 200"}
\* parseInt(match[1]), parseInt(match[2])
ListEntry(line) ==
  IF line = "1 100" THEN [num |-> 1, size |-> 100] ELSE [num |-> 2, size |-> 200]
\* a line appended as it was received
UnstuffNothing(line) == line
\* line.startsWith('..') ? line.substring(1) : line
Unstuff(line) == IF StartsWith(line, "..") THEN Tail(line) ELSE line

\* emailList.slice(-10)
SliceLast(list, k) ==
  IF Len(list) <= k THEN list ELSE SubSeq(list, Len(list) - k + 1, Len(list))

Front(q) == SubSeq(q, 1, Len(q) - 1)
Last(q) == q[Len(q)]

(* ---------- strings, with the positions JavaScript counts from 0 ---------- *)
CRLF == "\r\n"
\* the characters \s matches in the inputs considered
WhiteSpace == {" ", "\t", "\r", "\n"}
\* s.substring(a, b) and s.substring(a), for a <= b: positions past the end of s
\* count as the end of s
substring(s, a, b) ==
  IF a >= Len(s) \/ b <= a THEN "" ELSE SubSeq(s, a + 1, IF b > Len(s) THEN Len(s) ELSE b)
substringFrom(s, a) == IF a >= Len(s) THEN "" ELSE SubSeq(s, a + 1, Len(s))
\* s.charAt(i)
charAt(s, i) == IF i >= Len(s) THEN "" ELSE SubSeq(s, i + 1, i + 1)
\* the least element of a set of numbers, and none when the set is empty
First(set, none) == IF set = {} THEN none ELSE CHOOSE i \in set : \A j \in set : i <= j
\* s.indexOf(pat, from): -1 when pat does not occur at or after from
indexOfFrom(s, pat, from) ==
  First({i \in from..(Len(s) - Len(pat)) : SubSeq(s, i + 1, i + Len(pat)) = pat}, -1)
indexOf(s, pat) == indexOfFrom(s, pat, 0)
\* s.includes(sub)
includes(s, sub) == indexOf(s, sub) >= 0
\* the position of the first character at or after i that is not in the set cs
\* (Len(s) when there is none): where a greedy class such as \s* or [^;]+ stops
SkipWhile(s, i, cs) ==
  First({k \in i..(Len(s) - 1) : SubSeq(s, k + 1, k + 1) \notin cs},
        IF i > Len(s) THEN i ELSE Len(s))
\* the position of the first character at or after i that is in the set cs
SkipUntil(s, i, cs) ==
  First({k \in i..(Len(s) - 1) : SubSeq(s, k + 1, k + 1) \in cs},
        IF i > Len(s) THEN i ELSE Len(s))
\* s.trim()
trim(s) ==
  substring(s, SkipWhile(s, 0, WhiteSpace),
            CHOOSE b \in 0..Len(s) :
              /\ b > 0 => SubSeq(s, b, b) \notin WhiteSpace
              /\ \A j \in (b + 1)..Len(s) : SubSeq(s, j, j) \in WhiteSpace)
\* lines.join('') of lines that each had '\r\n' appended
RECURSIVE JoinLines(_)
JoinLines(lines) ==
  IF lines = <<>> THEN "" ELSE Head(lines) \o CRLF \o JoinLines(Tail(lines))
\* s.split(sep) for a separator that is a literal string
RECURSIVE split(_, _)
split(s, sep) ==
  LET At(i) == IF i < 0 THEN <<s>>
               ELSE <<substring(s, 0, i)>> \o split(substringFrom(s, i + Len(sep)), sep)
  IN At(indexOf(s, sep))
\* s.replace(/pat/g, rep) for a pattern that is a literal string
RECURSIVE replaceAll(_, _, _)
replaceAll(s, pat, rep) ==
  LET At(i) == IF i < 0 THEN s
               ELSE substring(s, 0, i) \o rep
                    \o replaceAll(substringFrom(s, i + Len(pat)), pat, rep)
  IN At(indexOf(s, pat))
\* the characters of a string, as a set of one-character strings
CharsOf(str) == {charAt(str, i) : i \in 0..(Len(str) - 1)}
UpperCase == "ABCDEFGHIJKLMNOPQRSTUVWXYZ"
LowerCase == "abcdefghijklmnopqrstuvwxyz"
Digits == "0123456789"
UpperChars == CharsOf(UpperCase)
\* s.toLowerCase(), for the letters A-Z
RECURSIVE toLowerCase(_)
toLowerCase(s) ==
  LET At(k) == IF k >= Len(s) THEN s
               ELSE substring(s, 0, k) \o charAt(LowerCase, indexOf(UpperCase, charAt(s, k)))
                    \o toLowerCase(substringFrom(s, k + 1))
  IN At(SkipUntil(s, 0, UpperChars))
\* the positions where the literal lit occurs in s, letters compared without case
\* (a literal of a regular expression with the i flag)
MatchesOf(low, l) == {i \in 0..(Len(low) - Len(l)) : SubSeq(low, i + 1, i + Len(l)) = l}
Occurrences(s, lit) == MatchesOf(toLowerCase(s), toLowerCase(lit))
\* s repeated n times
RECURSIVE Repeat(_, _)
Repeat(s, n) ==
  IF n = 0 THEN ""
  ELSE IF n % 2 = 0 THEN LET h == Repeat(s, n \div 2) IN h \o h
  ELSE s \o Repeat(s, n - 1)

(* ---------- the decoders of transfer encodings ---------- *)
\* the characters with the codes 32 to 95 and 97 to 126, in the order of their codes
PrintableLow == " !\"#$%&'()*+,-./0123456789:;<=>?@ABCDEFGHIJKLMNOPQRSTUVWXYZ[\\]^_"
PrintableHigh == "abcdefghijklmnopqrstuvwxyz{|}~"
\* String.fromCharCode(n) and the character a decoded byte n stands for, for
\* the codes of these characters, TAB, LF and CR; "?" stands for every other
\* character
fromCharCode(n) ==
  IF n >= 32 /\ n <= 95 THEN charAt(PrintableLow, n - 32)
  ELSE IF n >= 97 /\ n <= 126 THEN charAt(PrintableHigh, n - 97)
  ELSE IF n = 13 THEN "\r" ELSE IF n = 10 THEN "\n" ELSE IF n = 9 THEN "\t" ELSE "?"
HexDigits == "0123456789abcdef"
\* the value of a hexadecimal digit in either case; -1 for any other character
HexValue(c) ==
  First({v \in 0..15 : c = charAt(HexDigits, v) \/ c = charAt("0123456789ABCDEF", v)}, -1)
\* c matches [0-9A-F] under the i flag
IsHex(c) == HexValue(c) >= 0
\* parseInt(hex, 16) of two hexadecimal digits
parseHex(hex) == 16 * HexValue(charAt(hex, 0)) + HexValue(charAt(hex, 1))
\* s.replace(/=([0-9A-F]{2})/gi, (_, hex) => String.fromCharCode(parseInt(hex, 16)))
RECURSIVE decodeHexEscapes(_)
decodeHexEscapes(s) ==
  LET At(i) == IF i < 0 THEN s
               ELSE substring(s, 0, i) \o fromCharCode(parseHex(substring(s, i + 1, i + 3)))
                    \o decodeHexEscapes(substringFrom(s, i + 3))
  IN At(First({i \in 0..(Len(s) - 3) :
                 /\ charAt(s, i) = "="
                 /\ IsHex(charAt(s, i + 1))
                 /\ IsHex(charAt(s, i + 2))}, -1))
decodeQuotedPrintable(str) ==
  IF str = "" THEN "" ELSE decodeHexEscapes(replaceAll(str, "=" \o CRLF, ""))

\* str.replace(/\s/g, '')
RECURSIVE removeWhiteSpace(_)
removeWhiteSpace(s) ==
  LET At(k) == IF k >= Len(s) THEN s
               ELSE substring(s, 0, k) \o removeWhiteSpace(substringFrom(s, k + 1))
  IN At(SkipUntil(s, 0, WhiteSpace))
Base64Alphabet == UpperCase \o LowerCase \o Digits \o "+/"
Base64Chars == CharsOf(Base64Alphabet)
\* the value of a base64 digit
b64(c) == indexOf(Base64Alphabet, c)
\* Buffer.from(s, 'base64').toString(charset) for a string s of base64 digits:
\* four digits give three bytes, a last group of three digits two bytes and of
\* two digits one byte
RECURSIVE base64Text(_)
base64Text(s) ==
  IF Len(s) < 2 THEN ""
  ELSE LET Bytes(bits) ==
             fromCharCode(bits \div 65536)
             \o (IF Len(s) >= 3 THEN fromCharCode((bits \div 256) % 256) ELSE "")
             \o (IF Len(s) >= 4 THEN fromCharCode(bits % 256) ELSE "")
       IN Bytes(((b64(charAt(s, 0)) * 64 + b64(charAt(s, 1))) * 64
                 + (IF Len(s) >= 3 THEN b64(charAt(s, 2)) ELSE 0)) * 64
                + (IF Len(s) >= 4 THEN b64(charAt(s, 3)) ELSE 0))
          \o base64Text(substringFrom(s, 4))
\* the characters of s that are in the set cs, in their order
RECURSIVE keepOnly(_, _)
keepOnly(s, cs) ==
  LET Run(a, b) == substring(s, a, b) \o keepOnly(substringFrom(s, b), cs)
      At(a) == IF a >= Len(s) THEN "" ELSE Run(a, SkipWhile(s, a, cs))
  IN At(SkipUntil(s, 0, cs))
\* what Buffer.from(s, 'base64') reads of s: the base64 digits before the first
\* '=', any other character skipped
base64Digits(s) == keepOnly(substring(s, 0, SkipUntil(s, 0, {"="})), Base64Chars)
\* decodeBase64: no step of it throws, so the catch branch is never taken; the
\* charset makes no difference for the characters fromCharCode covers
decodeBase64(str) ==
  IF str = "" THEN "" ELSE base64Text(base64Digits(removeWhiteSpace(str)))

VARIABLES
  mode,                   \* "fetch": fetchPOP3Emails, "test": testPOP3Connection
  encryption,              \* config.encryption
  now,                     \* the clock, ms since the promise body started
  lastActivity,            \* when the socket last read or wrote (idle timer base)
  connected,               \* handleConnect has run
  socket,                  \* handle held by `socket`: 0 first one, k the k-th TLS wrapper
  hs,                      \* hs[k]: handshake of the k-th wrapper, "pending" or "done"
  listeners,               \* handles with the data/error/close listeners attached
  hsErr,                   \* handles with the handshake-time error listener
  closed,                  \* the connection is closed (socket.destroyed)
  destroyCalls,            \* calls of socket.destroy() made by cleanup
  resolved,
  resolveCalls,            \* calls of resolve()
  result,                  \* value the promise settled with (first resolve wins)
  timeoutTimer,            \* the 25 s timer: "armed", "cleared" or "fired"
  emptyTimer,              \* the 100 ms timer of the empty-list path is pending
  quitTimers,              \* pending 500 ms timers of the all-fetched path
  dataBuffer,
  currentStep,
  emailList,
  currentEmailData,
  currentEmailIndex,
  emails,
  startTLSUpgradePending,
  sent,                    \* commands passed to sendCmd, in order
  staleLines,              \* lines read from handle 0 and processed after an upgrade began
  stepFault,               \* "regress" or "skip" once an assignment to currentStep was one
  peer,                    \* the closure variables of a second invocation, <<>> before it
  imap,                    \* the closure variables of fetchIMAPEmails, <<>> in the POP3 modes
  emailStore,              \* the module's folder store
  response,                \* the POST request being handled, or the answer to the last one
  engine                   \* the EmailEngine object in mode "queue", <<>> otherwise

vars == << mode, encryption, now, lastActivity, connected, socket, hs, listeners, hsErr,
           closed, destroyCalls, resolved, resolveCalls, result,
           timeoutTimer, emptyTimer, quitTimers, dataBuffer, currentStep, emailList,
           currentEmailData, currentEmailIndex, emails, startTLSUpgradePending,
           sent, staleLines, stepFault, peer, imap, emailStore, response, engine >>

\* the variables of the POST handler
post == << emailStore, response >>

\* the state as one record, threaded through the handlers
S ==
  [ mode |-> mode, encryption |-> encryption, now |-> now, lastActivity |-> lastActivity,
    connected |-> connected, socket |-> socket, hs |-> hs, listeners |-> listeners,
    hsErr |-> hsErr, closed |-> closed,
    destroyCalls |-> destroyCalls, resolved |-> resolved,
    resolveCalls |-> resolveCalls, result |-> result, timeoutTimer |-> timeoutTimer,
    emptyTimer |-> emptyTimer, quitTimers |-> quitTimers, dataBuffer |-> dataBuffer,
    currentStep |-> currentStep, emailList |-> emailList,
    currentEmailData |-> currentEmailData, currentEmailIndex |-> currentEmailIndex,
    emails |-> emails, startTLSUpgradePending |-> startTLSUpgradePending,
    sent |-> sent, staleLines |-> staleLines, stepFault |-> stepFault ]

Commit(t) ==
  /\ mode' = t.mode
  /\ encryption' = t.encryption
  /\ now' = t.now
  /\ lastActivity' = t.lastActivity
  /\ connected' = t.connected
  /\ socket' = t.socket
  /\ hs' = t.hs
  /\ listeners' = t.listeners
  /\ hsErr' = t.hsErr
  /\ closed' = t.closed
  /\ destroyCalls' = t.destroyCalls
  /\ resolved' = t.resolved
  /\ resolveCalls' = t.resolveCalls
  /\ result' = t.result
  /\ timeoutTimer' = t.timeoutTimer
  /\ emptyTimer' = t.emptyTimer
  /\ quitTimers' = t.quitTimers
  \* once resolved is set nothing reads dataBuffer again (both 'data' listeners
  \* test resolved first), so what is left in it is dropped from the state
  /\ dataBuffer' = IF t.resolved THEN <<"">> ELSE t.dataBuffer
  /\ currentStep' = t.currentStep
  /\ emailList' = t.emailList
  /\ currentEmailData' = t.currentEmailData
  /\ currentEmailIndex' = t.currentEmailIndex
  /\ emails' = t.emails
  /\ startTLSUpgradePending' = t.startTLSUpgradePending
  /\ sent' = t.sent
  /\ staleLines' = t.staleLines
  /\ stepFault' = t.stepFault
  /\ peer' = peer
  /\ imap' = imap
  /\ UNCHANGED << post, engine >>

NoResult == [success |-> FALSE, error |-> "pending", emails |-> <<>>]
Success(list) == [success |-> TRUE, error |-> "", emails |-> list]
Failure(msg) == [success |-> FALSE, error |-> msg, emails |-> <<>>]

\* the closure variables of fetchIMAPEmails as its promise body declares them
\* (263-313), with the state of the connection object `imap`: "connecting" after
\* imap.connect(), "opening" while openBox runs, "fetching" while the fetch
\* runs, "closing" after imap.end(), "closed"; total is box.messages.total, -1
\* before the folder is open; fetches are the ranges passed to imap.seq.fetch
ImapClosure ==
  [ resolved |-> FALSE, timeout |-> "armed", emails |-> <<>>, state |-> "connecting",
    total |-> -1, fetches |-> <<>>, delivered |-> 0, destroyCalls |-> 0,
    resolveCalls |-> 0, result |-> NoResult, late |-> {} ]

(* ---------- helpers of the promise body ---------- *)

\* a first handle that is a plain TCP socket in every mode
FirstHandleNeverTls(enc) == FALSE

\* the first handle is made by tls.connect in mode 'ssl', by net.connect otherwise
FirstHandleIsTls(enc) == enc = "ssl"

\* handle h encrypts what is written to it: the first handle by the way it was
\* made, the k-th wrapper of upgradeToTLS always
TlsHandle(h, enc) == IF h = 0 THEN FirstHandleIsTls(enc) ELSE TRUE

\* the steps in the order the session takes them
StepRank(step) ==
  CASE step = "greeting" -> 0
    [] step = "stls" -> 1
    [] step = "user" -> 2
    [] step = "pass" -> 3
    [] step = "list" -> 4
    [] step = "retr" -> 5

\* the assignments `currentStep = ...` the transition table has; stls is
\* entered in StartTLS mode only, and only there it may not be left out
StepEdge(from, to, enc) ==
  \/ from = "greeting" /\ to = "stls" /\ enc = "tls"
  \/ from = "greeting" /\ to = "user" /\ enc # "tls"
  \/ from = "stls" /\ to = "user"
  \/ from = "user" /\ to = "pass"
  \/ from = "pass" /\ to = "list"
  \/ from = "list" /\ to = "retr"

\* currentStep = step, noting the first assignment that goes back or skips
setStep(s, step) ==
  [s EXCEPT !.currentStep = step,
            !.stepFault =
               IF @ # "none" THEN @
               ELSE IF StepRank(step) < StepRank(s.currentStep) THEN "regress"
               ELSE IF step # s.currentStep /\ ~StepEdge(s.currentStep, step, s.encryption)
                    THEN "skip"
               ELSE "none"]

\* cleanup: socket.destroy() on the handle `socket` holds
cleanup(s) == [s EXCEPT !.closed = TRUE, !.destroyCalls = @ + 1]

\* resolve(value): the promise keeps the first value
resolve(s, value) ==
  [s EXCEPT !.resolveCalls = @ + 1,
            !.result = IF s.resolveCalls = 0 THEN value ELSE @]

\* clearTimeout(timeout)
clearTimeout(s) ==
  [s EXCEPT !.timeoutTimer = IF @ = "armed" THEN "cleared" ELSE @]

\* sendCmd: logged always, written when the socket is not destroyed
sendCmd(s, cmd, arg) ==
  [s EXCEPT !.sent = Append(@, [cmd |-> cmd, arg |-> arg, handle |-> s.socket,
                                written |-> ~s.closed, reply |-> "none",
                                done |-> FALSE, late |-> s.resolveCalls > 0]),
            !.lastActivity = IF s.closed THEN @ ELSE s.now]

\* upgradeToTLS up to `socket = tlsSocket`; the connect callback is TlsSecure
upgradeToTLS(s) ==
  LET k == Len(s.hs) + 1 IN
  [s EXCEPT !.listeners = @ \ {s.socket},
            !.hsErr = (@ \ {s.socket}) \cup {k},
            !.hs = Append(@, "pending"),
            !.socket = k]

\* the error classification and resolution of handleError
CannotConnect == "Cannot connect to " \o HostPort \o ". Check server address and port."
TlsMismatch ==
  "SSL/TLS mismatch. Try changing encryption setting. "
  \o "SSL = implicit TLS, TLS = StartTLS, None = plain text."

\* a classification that knows the code of a failed name lookup too
ClassifyErrorWithLookup(msg) ==
  IF includes(msg, "ETIMEDOUT") \/ includes(msg, "ECONNREFUSED") \/ includes(msg, "ENOTFOUND")
  THEN CannotConnect
  ELSE IF includes(msg, "EPROTO") \/ includes(msg, "wrong version number")
  THEN TlsMismatch
  ELSE msg

ClassifyError(msg) ==
  IF includes(msg, "ETIMEDOUT") \/ includes(msg, "ECONNREFUSED") THEN CannotConnect
  ELSE IF includes(msg, "EPROTO") \/ includes(msg, "wrong version number")
  THEN TlsMismatch
  ELSE msg

\* an error handler that makes a new connection attempt after a failed one
handleErrorRetry(s, msg) ==
  IF ~s.resolved
  THEN IF ~s.connected /\ s.destroyCalls = 0
       THEN cleanup([s EXCEPT !.closed = FALSE])
       ELSE resolve(cleanup(clearTimeout([s EXCEPT !.resolved = TRUE])),
                    Failure(ClassifyError(msg)))
  ELSE s

handleError(s, msg) ==
  IF ~s.resolved
  THEN resolve(cleanup(clearTimeout([s EXCEPT !.resolved = TRUE])),
               Failure(ClassifyError(msg)))
  ELSE s

\* a terminal error branch of processLine
FailWith(s, msg) ==
  resolve(cleanup(clearTimeout([s EXCEPT !.resolved = TRUE])), Failure(msg))

(* ---------- parseMIMEBody ---------- *)


\* the greatest element of a set of numbers, and none when the set is empty
Greatest(set, none) == IF set = {} THEN none ELSE CHOOSE i \in set : \A j \in set : j <= i

\* Where the capture of /lit\s*([^stop]+)/i begins and ends when lit is matched at
\* position i: <<from, to>>, or <<>> when the pattern does not match there. The
\* capture begins at the first character after the white space; when that one is
\* a stop character, \s* gives back white space for the capture to begin with.
CaptureAfter(s, i, lit, stop) ==
  LET From(p) == IF p < 0 THEN <<>> ELSE <<p, SkipUntil(s, p, stop)>>
  IN From(Greatest({p \in (i + Len(lit))..SkipWhile(s, i + Len(lit), WhiteSpace) :
                      p < Len(s) /\ charAt(s, p) \notin stop}, -1))

\* s.match(/lit\s*([^stop]+)/i): <<match[1]>>, or <<>> for null
MatchField(s, lit, stop) ==
  LET Text(c) == <<substring(s, c[1], c[2])>>
      At(i) == IF i < 0 THEN <<>> ELSE Text(CaptureAfter(s, i, lit, stop))
  IN At(First({i \in Occurrences(s, lit) : CaptureAfter(s, i, lit, stop) # <<>>}, -1))

\* part.match(/Content-Type:\s*([^;\r\n]+)/i)
contentTypeMatch(part) == MatchField(part, "Content-Type:", {";", "\r", "\n"})
\* part.match(/Content-Transfer-Encoding:\s*([^\r\n]+)/i)
encodingMatch(part) == MatchField(part, "Content-Transfer-Encoding:", {"\r", "\n"})
\* match ? match[1].trim().toLowerCase() : default
FieldOr(match, default) == IF match = <<>> THEN default ELSE toLowerCase(trim(match[1]))

\* Where the capture of
\* /Content-Type:\s*multipart\/[^;]+;\s*boundary="?([^"\r\n]+)"?/i begins and ends
\* when 'Content-Type:' is matched at position i; <<>> when there is no match
\* there. Type(j): 'multipart/' at j; Subtype(k): [^;]+ from k and the ';';
\* Param(n): 'boundary=' at n and the optional quote; Value(q): the capture from q
BoundaryAt(s, i) ==
  LET Value(q) ==
        LET To(e) == IF e > q THEN <<q, e>> ELSE <<>>
        IN To(SkipUntil(s, q, {"\"", "\r", "\n"}))
      Param(n) ==
        IF toLowerCase(substring(s, n, n + Len("boundary="))) = "boundary="
        THEN Value(IF charAt(s, n + Len("boundary=")) = "\""
                   THEN n + Len("boundary=") + 1 ELSE n + Len("boundary="))
        ELSE <<>>
      Subtype(k) ==
        LET Semicolon(m) == IF m > k /\ m < Len(s)
                            THEN Param(SkipWhile(s, m + 1, WhiteSpace)) ELSE <<>>
        IN Semicolon(SkipUntil(s, k, {";"}))
      Type(j) ==
        IF toLowerCase(substring(s, j, j + Len("multipart/"))) = "multipart/"
        THEN Subtype(j + Len("multipart/")) ELSE <<>>
  IN Type(SkipWhile(s, i + Len("Content-Type:"), WhiteSpace))

\* rawBody.match(...) of the multipart test: <<match[1]>>, or <<>> for null
boundaryMatch(rawBody) ==
  LET Text(c) == <<substring(rawBody, c[1], c[2])>>
      At(i) == IF i < 0 THEN <<>> ELSE Text(BoundaryAt(rawBody, i))
  IN At(First({i \in Occurrences(rawBody, "Content-Type:") : BoundaryAt(rawBody, i) # <<>>},
              -1))

\* bodyStart > 0 ? part.substring(bodyStart + 4) : part
PartBody(part) ==
  LET From(bodyStart) == IF bodyStart > 0 THEN substringFrom(part, bodyStart + 4) ELSE part
  IN From(indexOf(part, CRLF \o CRLF))

\* the decoding by transfer encoding
DecodePart(partBody, encoding) ==
  IF encoding = "base64" THEN decodeBase64(partBody)
  ELSE IF encoding = "quoted-printable" THEN decodeQuotedPrintable(partBody)
  ELSE partBody

\* the loop over the parts: acc.text is textContent, acc.html is htmlContent
RECURSIVE ScanParts(_, _)
ScanParts(parts, acc) ==
  LET Scan(trimmed, contentType, decodedPart) ==
        IF trimmed = "--" \/ trimmed = "" THEN acc
        ELSE IF includes(contentType, "text/plain") /\ acc.text = ""
        THEN [acc EXCEPT !.text = decodedPart]
        ELSE IF includes(contentType, "text/html") /\ acc.html = ""
        THEN [acc EXCEPT !.html = decodedPart]
        ELSE acc
      Part(part) ==
        Scan(trim(part), FieldOr(contentTypeMatch(part), ""),
             DecodePart(PartBody(part), FieldOr(encodingMatch(part), "7bit")))
  IN IF parts = <<>> THEN acc ELSE ScanParts(Tail(parts), Part(Head(parts)))

\* the single-part branch
SinglePart(rawBody) ==
  LET Content(isHtml, body) ==
        IF isHtml THEN [text |-> "", html |-> body] ELSE [text |-> body, html |-> ""]
  IN Content(includes(FieldOr(contentTypeMatch(rawBody), "text/plain"), "text/html"),
             DecodePart(PartBody(rawBody), FieldOr(encodingMatch(rawBody), "7bit")))

\* s.replace(/<tag[^>]*>[\s\S]*?<\/tag>/gi, '') for the tags 'style' and 'script':
\* EndOf(i) is where the element opened at i ends, -1 when it is not closed
RECURSIVE removeElements(_, _)
removeElements(s, tag) ==
  LET EndOf(i) ==
        LET Close(k) == IF k < 0 THEN -1 ELSE k + Len(tag) + 3
            Open(g) == IF g >= Len(s) THEN -1
                       ELSE Close(First({k \in Occurrences(s, "</" \o tag \o ">") : k >= g + 1},
                                        -1))
        IN Open(SkipUntil(s, i + 1 + Len(tag), {">"}))
      At(i) == IF i < 0 THEN s
               ELSE substring(s, 0, i) \o removeElements(substringFrom(s, EndOf(i)), tag)
  IN At(First({i \in Occurrences(s, "<" \o tag) : EndOf(i) >= 0}, -1))

\* s.replace(/<[^>]+>/g, ' ')
RECURSIVE replaceTags(_)
replaceTags(s) ==
  LET TagEnd(i) == SkipUntil(s, i + 1, {">"})
      At(i) == IF i < 0 THEN s
               ELSE substring(s, 0, i) \o " " \o replaceTags(substringFrom(s, TagEnd(i) + 1))
  IN At(First({i \in 0..(Len(s) - 1) :
                 charAt(s, i) = "<" /\ TagEnd(i) > i + 1 /\ TagEnd(i) < Len(s)}, -1))

\* s.replace(/\s+/g, ' ')
RECURSIVE collapseWhiteSpace(_)
collapseWhiteSpace(s) ==
  LET At(k) == IF k >= Len(s) THEN s
               ELSE substring(s, 0, k) \o " "
                    \o collapseWhiteSpace(substringFrom(s, SkipWhile(s, k, WhiteSpace)))
  IN At(SkipUntil(s, 0, WhiteSpace))

\* the chain of replacements applied to htmlContent: style and script elements,
\* tags, the five entities, runs of white space, trim
stripHtml(htmlContent) ==
  trim(collapseWhiteSpace(
    replaceAll(replaceAll(replaceAll(replaceAll(replaceAll(
      replaceTags(removeElements(removeElements(htmlContent, "style"), "script")),
      "&nbsp;", " "), "&amp;", "&"), "&lt;", "<"), "&gt;", ">"), "&quot;", "\"")))

\* s.replace(/lit[^\r\n]+\r\n/gi, '')
RECURSIVE removeHeaderLines(_, _)
removeHeaderLines(s, lit) ==
  LET LineEnd(i) == SkipUntil(s, i + Len(lit), {"\r", "\n"})
      At(i) == IF i < 0 THEN s
               ELSE substring(s, 0, i)
                    \o removeHeaderLines(substringFrom(s, LineEnd(i) + 2), lit)
  IN At(First({i \in Occurrences(s, lit) :
                 LineEnd(i) > i + Len(lit) /\ substring(s, LineEnd(i), LineEnd(i) + 2) = CRLF},
              -1))

\* the characters [a-f0-9\-] matches under the i flag
BoundaryChars == CharsOf("abcdefABCDEF0123456789-")
\* s.replace(/--[a-f0-9\-]+/gi, '')
RECURSIVE removeDashRuns(_)
removeDashRuns(s) ==
  LET At(i) == IF i < 0 THEN s
               ELSE substring(s, 0, i)
                    \o removeDashRuns(substringFrom(s, SkipWhile(s, i + 2, BoundaryChars)))
  IN At(First({i \in 0..(Len(s) - 3) :
                 substring(s, i, i + 2) = "--" /\ charAt(s, i + 2) \in BoundaryChars}, -1))

\* the fallback: rawBody with its MIME header lines and boundary lines cut out
fallbackText(rawBody) ==
  trim(replaceAll(removeDashRuns(
         removeHeaderLines(removeHeaderLines(removeHeaderLines(rawBody,
           "Content-Type:"), "Content-Transfer-Encoding:"), "Content-Disposition:")),
       CRLF \o CRLF, "\n"))

parseMIMEBody(rawBody) ==
  LET Parts(match) ==
        IF match # <<>>
        THEN ScanParts(split(rawBody, "--" \o trim(match[1])), [text |-> "", html |-> ""])
        ELSE SinglePart(rawBody)
      Content(acc) ==
        IF acc.text # "" THEN trim(acc.text)
        ELSE IF acc.html # "" THEN stripHtml(acc.html)
        ELSE fallbackText(rawBody)
  IN IF rawBody = "" THEN "" ELSE Content(Parts(boundaryMatch(rawBody)))

(* ---------- dates ---------- *)

\* new Date().toISOString(): the wall clock when a record is built; the model
\* keeps one value for it
nowISO == "2026-11-03T08:15:30.123Z"

DigitChars == CharsOf(Digits)
\* the number a text of decimal digits denotes
RECURSIVE digitsValue(_)
digitsValue(s) ==
  IF s = "" THEN 0
  ELSE 10 * digitsValue(substring(s, 0, Len(s) - 1))
       + indexOf(Digits, charAt(s, Len(s) - 1))
\* n in w decimal digits
RECURSIVE padStart(_, _)
padStart(n, w) ==
  IF w = 0 THEN "" ELSE padStart(n \div 10, w - 1) \o charAt(Digits, n % 10)

MonthNames == <<"jan", "feb", "mar", "apr", "may", "jun",
                "jul", "aug", "sep", "oct", "nov", "dec">>
monthOf(name) == First({m \in 1..12 : MonthNames[m] = toLowerCase(name)}, 0)

\* days from 1970-01-01 to the day d of month m of year y, and back
daysFromCivil(y, m, d) ==
  LET Doe(yoe, doy) == yoe * 365 + yoe \div 4 - yoe \div 100 + doy
      From(yy, mp) ==
        (yy \div 400) * 146097 + Doe(yy % 400, (153 * mp + 2) \div 5 + d - 1) - 719468
  IN From(IF m <= 2 THEN y - 1 ELSE y, IF m > 2 THEN m - 3 ELSE m + 9)
civilFromDays(days) ==
  LET Civil(y, m, d) == <<IF m <= 2 THEN y + 1 ELSE y, m, d>>
      OfMonth(y, doy, mp) ==
        Civil(y, IF mp < 10 THEN mp + 3 ELSE mp - 9, doy - (153 * mp + 2) \div 5 + 1)
      OfDay(y, doy) == OfMonth(y, doy, (5 * doy + 2) \div 153)
      OfYear(era, doe, yoe) ==
        OfDay(yoe + era * 400, doe - (365 * yoe + yoe \div 4 - yoe \div 100))
      OfEra(era, doe) ==
        OfYear(era, doe,
               (doe - doe \div 1460 + doe \div 36524 - doe \div 146096) \div 365)
      At(z) == OfEra(z \div 146097, z % 146097)
  IN At(days + 719468)

\* the text after the day name of a date-time ('Mon, ')
afterDayName(s) == IF charAt(s, 3) = "," THEN trim(substringFrom(s, 4)) ELSE trim(s)

\* b has the form 'DD Mon YYYY HH:MM:SS +ZZZZ' of a date-time of RFC 5322
isDateTime(b) ==
  /\ Len(b) = 26
  /\ \A i \in {0, 1, 7, 8, 9, 10, 12, 13, 15, 16, 18, 19, 22, 23, 24, 25} :
       charAt(b, i) \in DigitChars
  /\ \A i \in {2, 6, 11, 20} : charAt(b, i) = " "
  /\ \A i \in {14, 17} : charAt(b, i) = ":"
  /\ charAt(b, 21) \in {"+", "-"}
  /\ monthOf(substring(b, 3, 6)) > 0
  /\ digitsValue(substring(b, 0, 2)) \in 1..31
  /\ digitsValue(substring(b, 7, 11)) \in 1970..2037
  /\ digitsValue(substring(b, 12, 14)) < 24
  /\ digitsValue(substring(b, 15, 17)) < 60
  /\ digitsValue(substring(b, 18, 20)) < 60

\* the seconds from 1970-01-01T00:00:00Z to the date-time b
secondsOf(b) ==
  daysFromCivil(digitsValue(substring(b, 7, 11)), monthOf(substring(b, 3, 6)),
                digitsValue(substring(b, 0, 2))) * 86400
  + digitsValue(substring(b, 12, 14)) * 3600
  + digitsValue(substring(b, 15, 17)) * 60
  + digitsValue(substring(b, 18, 20))
  - (IF charAt(b, 21) = "+" THEN 1 ELSE -1)
    * (digitsValue(substring(b, 22, 24)) * 3600 + digitsValue(substring(b, 24, 26)) * 60)

\* new Date(str): the seconds since 1970-01-01T00:00:00Z, -1 for an invalid
\* date. The texts the model passes are date-times of RFC 5322 or texts without
\* a digit, which the parser of Date rejects.
newDate(str) == IF isDateTime(afterDayName(str)) THEN secondsOf(afterDayName(str)) ELSE -1

\* date.toISOString() of a valid date
toISOString(t) ==
  LET Text(c, secs) ==
        padStart(c[1], 4) \o "-" \o padStart(c[2], 2) \o "-" \o padStart(c[3], 2) \o "T"
        \o padStart(secs \div 3600, 2) \o ":" \o padStart((secs % 3600) \div 60, 2) \o ":"
        \o padStart(secs % 60, 2) \o ".000Z"
  IN Text(civilFromDays(t \div 86400), t % 86400)

\* s has the form YYYY-MM-DDTHH:MM:SS.sssZ
isISO8601(s) ==
  /\ Len(s) = 24
  /\ \A i \in {0, 1, 2, 3, 5, 6, 8, 9, 11, 12, 14, 15, 17, 18, 20, 21, 22} :
       charAt(s, i) \in DigitChars
  /\ \A i \in {4, 7} : charAt(s, i) = "-"
  /\ charAt(s, 10) = "T"
  /\ \A i \in {13, 16} : charAt(s, i) = ":"
  /\ charAt(s, 19) = "."
  /\ charAt(s, 23) = "Z"

(* ---------- message parsing ---------- *)

\* the characters the classes of the address pattern match
Letters == CharsOf(UpperCase \o LowerCase)
LocalChars == Letters \cup CharsOf(Digits \o "._%+-")
DomainChars == Letters \cup CharsOf(Digits \o ".-")

\* Where a match of /[a-zA-Z0-9._%+-]+@[a-zA-Z0-9.-]+\.[a-zA-Z]{2,}/i that begins
\* at position i ends; -1 when there is none. The domain is matched as far as a
\* '.' followed by two letters or more allows.
EmailEnd(s, i) ==
  LET End(dot) == IF dot < 0 THEN -1 ELSE SkipWhile(s, dot + 1, Letters)
      Domain(at) ==
        IF at > i /\ charAt(s, at) = "@"
        THEN End(Greatest({x \in (at + 2)..(SkipWhile(s, at + 1, DomainChars) - 1) :
                             charAt(s, x) = "." /\ SkipWhile(s, x + 1, Letters) >= x + 3}, -1))
        ELSE -1
  IN Domain(SkipWhile(s, i, LocalChars))

\* <?(address)>? matched at position i: <<from, to>> of the address, <<>> for no match
AddressAt(s, i) ==
  LET Span(a, e) == IF e >= 0 THEN <<a, e>> ELSE <<>>
      From(a) == Span(a, EmailEnd(s, a))
  IN From(IF charAt(s, i) = "<" /\ EmailEnd(s, i + 1) >= 0 THEN i + 1 ELSE i)

\* where the name of (?:"?([^"]*)"?\s)? begins when the group is matched at i, and
\* where it ends when p is the position of the white space \s
NameFrom(s, i) == IF charAt(s, i) = "\"" THEN i + 1 ELSE i
NameTo(s, i, p) == IF p > NameFrom(s, i) /\ charAt(s, p - 1) = "\"" THEN p - 1 ELSE p

\* (?:"?([^"]*)"?\s)? matched at position i and followed by the address: the
\* positions p of the white space \s for which the whole pattern matches
NameEnds(s, i) ==
  {p \in NameFrom(s, i)..(Len(s) - 1) :
     /\ charAt(s, p) \in WhiteSpace
     /\ ~includes(substring(s, NameFrom(s, i), NameTo(s, i, p)), "\"")
     /\ AddressAt(s, p + 1) # <<>>}

\* header.match(/(?:"?([^"]*)"?\s)?<?(address)>?/i) for a match that begins at
\* position i: <<match[1], match[2]>> with '' for an undefined match[1]; <<>> for
\* no match at i
AddressMatchAt(s, i) ==
  LET Match(name, e) == IF e = <<>> THEN <<>> ELSE <<name, substring(s, e[1], e[2])>>
      At(p) == IF p >= 0
               THEN Match(substring(s, NameFrom(s, i), NameTo(s, i, p)), AddressAt(s, p + 1))
               ELSE Match("", AddressAt(s, i))
  IN At(Greatest(NameEnds(s, i), -1))

\* a || b of two strings
orElse(text, default) == IF text # "" THEN text ELSE default

\* parseEmailAddress: the second pattern matches only where the first one does,
\* so a header without an address is returned as both name and email
parseEmailAddress(header) ==
  LET Result(match) == [name |-> orElse(trim(match[1]), match[2]), email |-> match[2]]
      At(i) == IF i < 0 THEN [name |-> header, email |-> header]
               ELSE Result(AddressMatchAt(header, i))
  IN IF header = "" THEN [name |-> "", email |-> ""]
     ELSE At(First({i \in 0..(Len(header) - 1) : AddressMatchAt(header, i) # <<>>}, -1))

\* str.replace(/=\?charset\?X\?([class]+)\?=/gi, decode): prefix is the text up to
\* the capture, class the characters the capture may hold
RECURSIVE replaceEncodedWords(_, _, _, _)
replaceEncodedWords(str, prefix, class, isBase64) ==
  LET CapEnd(i) == SkipWhile(str, i + Len(prefix), class)
      Decode(word) ==
        IF isBase64 THEN base64Text(base64Digits(word))
        ELSE decodeHexEscapes(word)
      At(i) ==
        IF i < 0 THEN str
        ELSE substring(str, 0, i) \o Decode(substring(str, i + Len(prefix), CapEnd(i)))
             \o replaceEncodedWords(substringFrom(str, CapEnd(i) + 2), prefix, class, isBase64)
  IN At(First({i \in Occurrences(str, prefix) :
                 /\ CapEnd(i) > i + Len(prefix)
                 /\ substring(str, CapEnd(i), CapEnd(i) + 2) = "?="}, -1))

\* the characters [^?] matches in the inputs considered
NotQuestionMark == (CharsOf(PrintableLow \o PrintableHigh) \ {"?"}) \cup {"\t", "\r", "\n"}

decodeMimeWord(str) ==
  IF str = "" THEN ""
  ELSE replaceEncodedWords(
         replaceEncodedWords(
           replaceEncodedWords(str, "=?UTF-8?B?", Base64Chars \cup {"="}, TRUE),
           "=?UTF-8?Q?", NotQuestionMark, FALSE),
         "=?ISO-8859-1?Q?", NotQuestionMark, FALSE)

\* getHeader(name): headers.match(/^name:\s*(.+)$/im), with ^ at the start of
\* headers or after a line terminator
getHeader(headers, name) ==
  LET Value(c) == trim(substring(headers, c[1], c[2]))
      At(i) == IF i < 0 THEN ""
               ELSE Value(CaptureAfter(headers, i, name \o ":", {"\r", "\n"}))
  IN At(First({i \in Occurrences(headers, name \o ":") :
                 /\ IF i = 0 THEN TRUE ELSE charAt(headers, i - 1) \in {"\r", "\n"}
                 /\ CaptureAfter(headers, i, name \o ":", {"\r", "\n"}) # <<>>}, -1))

\* a body stored as it was decoded
bodyAsDecoded(parsedBody) == parsedBody

\* parsedBody.substring(0, 5000) || '(No content)'
bodyOrPlaceholder(parsedBody) == orElse(substring(parsedBody, 0, BodyLimit), "(No content)")

\* the record parseEmailFromRaw returns (id left out), from the headers, the text
\* after them and the parsed From header
emailRecord(headers, rawBody, parsed) ==
  [ from |-> orElse(decodeMimeWord(parsed.name), orElse(parsed.email, "Unknown")),
    fromEmail |-> parsed.email,
    subject |-> orElse(decodeMimeWord(getHeader(headers, "Subject")), "(No Subject)"),
    date |-> orElse(getHeader(headers, "Date"), nowISO),
    body |-> bodyOrPlaceholder(parseMIMEBody(rawBody)),
    read |-> TRUE, starred |-> FALSE ]

\* parseEmailFromRaw of the text raw, headerEnd being raw.indexOf('\r\n\r\n')
parseRaw(raw, headerEnd) ==
  emailRecord(IF headerEnd > 0 THEN substring(raw, 0, headerEnd) ELSE raw,
              IF headerEnd > 0 THEN substringFrom(raw, headerEnd + 4) ELSE "",
              parseEmailAddress(getHeader(IF headerEnd > 0 THEN substring(raw, 0, headerEnd)
                                          ELSE raw, "From")))

\* parseEmailFromRaw of the raw block, kept as the sequence of its lines
parseEmailFromRaw(lines) ==
  parseRaw(JoinLines(lines), indexOf(JoinLines(lines), CRLF \o CRLF))

\* the body of the record fetchIMAPEmails builds from the TEXT section bodyBuffer
imapBody(bodyBuffer) == bodyOrPlaceholder(parseMIMEBody(bodyBuffer))

(* ---------- processLine ---------- *)

\* how a line reads as the status line of a reply
ReplyClass(line) ==
  IF StartsWithOK(line) THEN "+OK" ELSE IF StartsWithERR(line) THEN "-ERR" ELSE "other"

\* bookkeeping of the line being consumed: it answers the last command sent (a
\* status line answers STLS, USER, PASS and QUIT; the lone '.' ends the answer to
\* LIST and RETR), and it is stale when it was read from handle 0 after an upgrade
\* began
NoteLine(s, line, h) ==
  LET n == Len(s.sent)
      e == s.sent[n]
      multi == e.cmd \in {"LIST", "RETR"}
      first == IF multi THEN "none" ELSE ReplyClass(line)
      fin == IF multi THEN line = "." ELSE TRUE
      marked == IF n = 0 \/ e.done THEN s.sent
                ELSE [s.sent EXCEPT ![n] = [e EXCEPT !.reply = first, !.done = fin]]
  IN [s EXCEPT !.sent = marked,
               !.staleLines = @ \/ (h = 0 /\ Len(s.hs) > 0)]

\* onGreeting without the StartTLS branch: USER straight after the greeting
onGreetingNoStls(s, line) ==
  IF StartsWithOK(line)
  THEN sendCmd(setStep(s, "user"), "USER", 0)
  ELSE FailWith(s, "Server greeting failed")

\* onGreeting that goes on waiting when the line is not a +OK
onGreetingLenient(s, line) ==
  IF StartsWithOK(line)
  THEN IF s.encryption = "tls"
       THEN sendCmd(setStep(s, "stls"), "STLS", 0)
       ELSE sendCmd(setStep(s, "user"), "USER", 0)
  ELSE s

onGreeting(s, line) ==
  IF StartsWithOK(line)
  THEN IF s.encryption = "tls"
       THEN sendCmd(setStep(s, "stls"), "STLS", 0)
       ELSE sendCmd(setStep(s, "user"), "USER", 0)
  ELSE FailWith(s, "Server greeting failed")

\* onStls that ends the session when STLS is not accepted
onStlsAbort(s, line) ==
  IF StartsWithOK(line)
  THEN upgradeToTLS([s EXCEPT !.startTLSUpgradePending = TRUE])
  ELSE FailWith(s, "STLS rejected")

onStls(s, line) ==
  IF StartsWithOK(line)
  THEN upgradeToTLS([s EXCEPT !.startTLSUpgradePending = TRUE])
  ELSE sendCmd(setStep(s, "user"), "USER", 0)

onUser(s, line) ==
  IF StartsWithOK(line)
  THEN sendCmd(setStep(s, "pass"), "PASS", 0)
  ELSE FailWith(s, "Username rejected")

\* onPass that sends LIST whatever the answer to PASS is
onPassAnyLine(s, line) == sendCmd(setStep(s, "list"), "LIST", 0)

onPass(s, line) ==
  IF StartsWithOK(line)
  THEN sendCmd(setStep(s, "list"), "LIST", 0)
  ELSE FailWith(s, "Authentication failed")

onList(s, line) ==
  IF line = "."
  THEN IF Len(s.emailList) = 0
       THEN [sendCmd(clearTimeout([s EXCEPT !.resolved = TRUE]), "QUIT", 0)
               EXCEPT !.emptyTimer = TRUE]
       ELSE LET toFetch == SliceLast(s.emailList, FetchLimit)
            IN sendCmd([setStep(s, "retr") EXCEPT !.currentEmailIndex = 0,
                                                  !.currentEmailData = <<>>],
                       "RETR", toFetch[1].num)
  ELSE IF StartsWithERR(line)
  THEN FailWith(s, "LIST failed")
  ELSE IF ListMatch(line)
  THEN [s EXCEPT !.emailList = Append(@, ListEntry(line))]
  ELSE s

\* onRetr that pushes no record for a message of which nothing could be decoded
onRetrDropUndecoded(s, line) ==
  IF line = "."
  THEN LET toFetch == SliceLast(s.emailList, FetchLimit)
           Pushed(t) ==
             IF t.currentEmailIndex < Len(toFetch)
             THEN sendCmd([t EXCEPT !.currentEmailData = <<>>],
                          "RETR", toFetch[t.currentEmailIndex + 1].num)
             ELSE [sendCmd(t, "QUIT", 0) EXCEPT !.quitTimers = @ + 1]
       IN Pushed([s EXCEPT !.emails =
                             IF parseEmailFromRaw(s.currentEmailData).body = "(No content)"
                             THEN @ ELSE Append(@, parseEmailFromRaw(s.currentEmailData)),
                           !.currentEmailIndex = @ + 1])
  ELSE [s EXCEPT !.currentEmailData = Append(@, Unstuff(line))]

\* a retr branch that takes a -ERR line as the failure of RETR
onRetrFailOnErr(s, line) ==
  IF line = "."
  THEN LET toFetch == SliceLast(s.emailList, FetchLimit)
           Pushed(t) ==
             IF t.currentEmailIndex < Len(toFetch)
             THEN sendCmd([t EXCEPT !.currentEmailData = <<>>],
                          "RETR", toFetch[t.currentEmailIndex + 1].num)
             ELSE [sendCmd(t, "QUIT", 0) EXCEPT !.quitTimers = @ + 1]
       IN Pushed([s EXCEPT !.emails = Append(@, parseEmailFromRaw(s.currentEmailData)),
                           !.currentEmailIndex = @ + 1])
  ELSE IF StartsWithERR(line) /\ s.currentEmailData = <<>>
  THEN FailWith(s, "RETR failed")
  ELSE [s EXCEPT !.currentEmailData = Append(@, Unstuff(line))]

\* the retr branch. No step of parseEmailFromRaw throws on a string, so its catch
\* branch (return null) is never taken and `if (email)` always holds.
onRetr(s, line) ==
  IF line = "."
  THEN LET toFetch == SliceLast(s.emailList, FetchLimit)
           Pushed(t) ==
             IF t.currentEmailIndex < Len(toFetch)
             THEN sendCmd([t EXCEPT !.currentEmailData = <<>>],
                          "RETR", toFetch[t.currentEmailIndex + 1].num)
             ELSE [sendCmd(t, "QUIT", 0) EXCEPT !.quitTimers = @ + 1]
       IN Pushed([s EXCEPT !.emails = Append(@, parseEmailFromRaw(s.currentEmailData)),
                           !.currentEmailIndex = @ + 1])
  ELSE [s EXCEPT !.currentEmailData = Append(@, Unstuff(line))]

\* the switch on currentStep
StepHandler(s, line) ==
  CASE s.currentStep = "greeting" -> onGreeting(s, line)
    [] s.currentStep = "stls" -> onStls(s, line)
    [] s.currentStep = "user" -> onUser(s, line)
    [] s.currentStep = "pass" -> onPass(s, line)
    [] s.currentStep = "list" -> onList(s, line)
    [] s.currentStep = "retr" -> onRetr(s, line)

processLine(s0, line, h) == StepHandler(NoteLine(s0, line, h), line)

\* the while loop of processResponse over the complete lines of dataBuffer
RECURSIVE ProcessLines(_, _)
ProcessLines(s, h) ==
  IF Len(s.dataBuffer) < 2 THEN s
  ELSE LET Consumed(t) == IF t.resolved THEN t ELSE ProcessLines(t, h)
       IN Consumed(processLine([s EXCEPT !.dataBuffer = Tail(@)], Head(s.dataBuffer), h))

\* dataBuffer += response, with response in its split form
AppendChunk(buffer, chunk) ==
  Front(buffer) \o <<IF Last(buffer) = "" THEN Head(chunk) ELSE Last(buffer)>>
                \o Tail(chunk)

processResponse(s, chunk, h) ==
  ProcessLines([s EXCEPT !.dataBuffer = AppendChunk(@, chunk)], h)

(* ---------- callbacks ---------- *)

\* the connect callback of tls.connect in upgradeToTLS, for the k-th wrapper
onSecureConnect(s, k) ==
  sendCmd(setStep([s EXCEPT !.hs[k] = "done",
                            !.socket = k,
                            !.listeners = @ \cup {k}],
                  "user"),
          "USER", 0)

\* the 'close' listener
\* a 'close' listener that ends the session without a result
onCloseSilent(s) ==
  IF ~s.resolved THEN clearTimeout([s EXCEPT !.resolved = TRUE]) ELSE s

onClose(s) ==
  IF ~s.resolved
  THEN resolve(clearTimeout([s EXCEPT !.resolved = TRUE]), Success(s.emails))
  ELSE s

\* a 'close' event: the connection is closed, and the listener runs where one
\* is attached
emitClose(s) ==
  IF s.listeners # {} THEN onClose([s EXCEPT !.closed = TRUE])
  ELSE [s EXCEPT !.closed = TRUE]

\* onTimeout without the cleanup() call
onTimeoutNoCleanup(s) ==
  IF ~s.resolved
  THEN resolve([s EXCEPT !.resolved = TRUE], Failure("Connection timeout"))
  ELSE s

\* the callback of the 25 s timer
onTimeout(s) ==
  IF ~s.resolved
  THEN resolve(cleanup([s EXCEPT !.resolved = TRUE]), Failure("Connection timeout"))
  ELSE s

\* a 100 ms callback that destroys the socket and resolves nothing
onEmptyTimerNoResolve(s) == cleanup(s)

\* the 100 ms callback of the empty-list path
onEmptyTimer(s) == resolve(cleanup(s), Success(<<>>))

\* the 500 ms callback of the all-fetched path
onQuitTimer(s) ==
  resolve(cleanup(clearTimeout([s EXCEPT !.resolved = TRUE])), Success(s.emails))

(* ---------- the environment's inputs ---------- *)

\* the caps on what the server sends
Bounded(t) ==
  /\ Len(t.emailList) <= MaxList
  /\ Len(t.currentEmailData) <= MaxData
  /\ Len(t.hs) <= MaxUpgrades
  /\ t.quitTimers <= MaxQuit

\* what a chunk may end with after its last CRLF
Rests == Partials \cup {""}

\* The first piece of a received chunk, in its split form: one complete line and
\* the rest that follows it, or a rest alone; the CRLF that ends a rest left in
\* the buffer, when there is one.
FirstPiece(buffer) ==
  IF Last(buffer) = ""
  THEN {<<line, r>> : line \in Lines, r \in Rests} \cup {<<p>> : p \in Partials}
  ELSE {<<"", r>> : r \in Rests}

\* The states processResponse can end in when the chunk read from handle h goes on
\* after the piece already processed in t, with at most n more complete lines.
\* While the 'data' listener of h stays attached, the lines that follow in a chunk
\* reach the same state when they arrive as the next chunk (the listener runs
\* again and the loop of processResponse is a function of the state and the
\* line), so further lines of the same chunk are enumerated only where they
\* cannot arrive later: after the run has detached the listeners of h
\* (upgradeToTLS).
RECURSIVE Responses(_, _, _)
Responses(t, h, n) ==
  IF ~Bounded(t) THEN {}
  ELSE {t} \cup
       (IF n = 0 \/ t.resolved \/ h \in t.listeners \/ Last(t.dataBuffer) # "" THEN {}
        ELSE UNION {Responses(processResponse(t, <<line, r>>, h), h, n - 1) :
                      line \in Lines, r \in Rests})

(* ---------- actions ---------- *)

\* the closure variables as the promise body declares them
\* the EmailEngine as its constructor leaves it: `queue` is the array
\* this.queue refers to, arrays[k] the emails of the k-th array made (a filter
\* makes a new one), mails[i] the i-th QueuedEmail object with the number of
\* calls of send made for it, runs the calls of processQueue, now the clock in
\* ms
NewEngine ==
  [now |-> 0, mails |-> <<>>, arrays |-> << <<>> >>, queue |-> 1, runs |-> <<>>]

StartSession ==
  /\ encryption \in Encryptions
  /\ now = 0
  /\ lastActivity = 0
  /\ connected = FALSE
  /\ socket = 0
  /\ hs = <<>>
  /\ listeners = {0}
  /\ hsErr = {}
  /\ closed = FALSE
  /\ destroyCalls = 0
  /\ resolved = FALSE
  /\ resolveCalls = 0
  /\ result = NoResult
  /\ timeoutTimer = "armed"
  /\ emptyTimer = FALSE
  /\ quitTimers = 0
  /\ dataBuffer = <<"">>
  /\ currentStep = "greeting"
  /\ emailList = <<>>
  /\ currentEmailData = <<>>
  /\ currentEmailIndex = 0
  /\ emails = <<>>
  /\ startTLSUpgradePending = FALSE
  /\ sent = <<>>
  /\ staleLines = FALSE
  /\ stepFault = "none"
  /\ peer = <<>>
  /\ imap = IF mode = "imap" THEN ImapClosure ELSE <<>>
  /\ engine = IF mode = "queue" THEN NewEngine ELSE <<>>

\* the store as the module creates it (45-57)
EmptyStore == [inbox |-> <<>>, sent |-> <<>>, drafts |-> <<>>, spam |-> <<>>, trash |-> <<>>]

\* the POST request that awaits the session: action 'test_pop' calls
\* testPOP3Connection, action 'fetch' the two others; none in mode "queue"
Awaiting ==
  [action |-> CASE mode = "test" -> "test_pop" [] mode = "queue" -> "none" [] OTHER -> "fetch",
   pending |-> mode # "queue", success |-> FALSE, folder |-> ""]

\* the first request a server instance handles
Start == StartSession /\ emailStore = EmptyStore /\ response = Awaiting

Init == mode = "fetch" /\ Start

\* handleConnect
Connect ==
  /\ mode = "fetch"
  /\ ~connected /\ ~closed
  /\ Commit([S EXCEPT !.connected = TRUE, !.lastActivity = now])

\* a 'data' event on handle h
Data ==
  \E h \in listeners :
    /\ mode = "fetch"
    /\ connected /\ ~closed /\ ~resolved
    /\ IF h = 0 THEN TRUE ELSE hs[h] = "done"
    /\ \E piece \in FirstPiece(dataBuffer) :
         \E t \in Responses(processResponse([S EXCEPT !.lastActivity = now], piece, h),
                            h, MaxChunk - 1) :
           Commit(t)

\* the TLS handshake of the k-th wrapper completes
TlsSecure ==
  \E k \in 1..Len(hs) :
    /\ mode = "fetch"
    /\ hs[k] = "pending" /\ ~closed
    /\ IF k = 1 THEN TRUE ELSE hs[k - 1] = "done"
    /\ Commit(onSecureConnect(S, k))

\* an 'error' event; the socket is destroyed when it is emitted
SocketError ==
  \E msg \in ErrorMessages :
    /\ mode = "fetch"
    /\ ~closed
    /\ listeners \cup hsErr # {}
    /\ msg \in ConnectErrors => ~connected
    /\ msg = WrongVersion =>
         \/ encryption = "ssl" /\ ~connected
         \/ \E k \in 1..Len(hs) : hs[k] = "pending"
    /\ msg = Reset => connected
    /\ Commit(handleError([S EXCEPT !.closed = TRUE], msg))

\* a 'close' event: the peer closed, or the socket was destroyed
SocketClose == mode = "fetch" /\ Commit(emitClose(S))

\* the 'timeout' event of socket.setTimeout(20000), at an unspecified time
IdleTimeout ==
  /\ mode = "fetch"
  /\ ~closed
  /\ ~resolved
  /\ Commit(handleError(S, "Socket timeout"))

\* the 25 s timer fires, at an unspecified time
FetchTimeout ==
  /\ mode = "fetch"
  /\ timeoutTimer = "armed"
  /\ Commit(onTimeout([S EXCEPT !.timeoutTimer = "fired"]))

EmptyTimerFires ==
  /\ emptyTimer
  /\ Commit(onEmptyTimer([S EXCEPT !.emptyTimer = FALSE]))

QuitTimerFires ==
  /\ quitTimers > 0
  /\ Commit(onQuitTimer([S EXCEPT !.quitTimers = @ - 1]))

\* Spec leaves the clock at 0: the server may delay any reply for any time, so
\* every timer may fire between any two events
Next ==
  \/ Connect
  \/ Data
  \/ TlsSecure
  \/ SocketError
  \/ SocketClose
  \/ IdleTimeout
  \/ FetchTimeout
  \/ EmptyTimerFires
  \/ QuitTimerFires

Spec == Init /\ [][Next]_vars

(* ---------- the session against a server that never sends ---------- *)

\* an idle timer that is due whatever the time the socket has been idle
IdleDueAtOnce(s) == ~s.closed

\* the idle timer is due when the socket has been idle for 20 s
IdleDue(s) == ~s.closed /\ s.now - s.lastActivity >= SocketIdleMs
\* the fetch timer is due 25 s after the promise body started
FetchDue(s) == s.timeoutTimer = "armed" /\ s.now >= FetchTimeoutMs

\* time passes; a due timer fires before the clock moves on
Tick ==
  /\ mode = "fetch"
  /\ now + TickMs <= MaxTime
  /\ (timeoutTimer = "armed" \/ ~closed)
  /\ ~IdleDue(S) /\ ~FetchDue(S)
  /\ Commit([S EXCEPT !.now = @ + TickMs])

IdleTimeoutDue == IdleDue(S) /\ IdleTimeout

FetchTimeoutDue == FetchDue(S) /\ FetchTimeout

\* the 'close' event that follows socket.destroy()
CloseAfterDestroy == closed /\ SocketClose

NextSilent ==
  \/ Connect
  \/ Tick
  \/ IdleTimeoutDue
  \/ FetchTimeoutDue
  \/ CloseAfterDestroy

\* the event loop runs a due timer, and time does not stop
SpecSilent == Init /\ [][NextSilent]_vars /\ WF_vars(NextSilent)

(* ---------- the session against a server that delivers messages ---------- *)

\* the header block of the messages on the server
TopHeaders == <<"From: Alice <alice@example.com>", "Subject: Hello">>

\* a multipart message with boundary XYZ: one text/plain part and one text/html part
MultipartXYZ ==
  TopHeaders \o
  << "Content-Type: multipart/alternative; boundary=\"XYZ\"", "",
     "--XYZ", "Content-Type: text/plain", "", "Plain body",
     "--XYZ", "Content-Type: text/html", "", "<p>Html body</p>",
     "--XYZ--" >>

\* a message without MIME structure whose text holds a line '.'
PlainWithDot == TopHeaders \o <<"", "Hello", ".", ".signature">>

\* a message that is one text/html part
HtmlOnly == TopHeaders \o <<"Content-Type: text/html", "", "<p>Html &amp; body</p>">>

\* a message that is one text/plain part in base64 ('Hello')
Base64Plain ==
  TopHeaders \o
  <<"Content-Type: text/plain", "Content-Transfer-Encoding: base64", "", "SGVsbG8=">>

\* messages with nothing after the header block, and with white space only
EmptyBody == TopHeaders \o <<"">>
BlankBody == TopHeaders \o <<"", "   ", "">>

\* a message whose text is longer than the limit of a body
LongPlain == TopHeaders \o <<"", Repeat("x", BodyLimit + 1)>>

\* a message that cannot be decoded as it declares: the multipart is never closed,
\* the base64 text holds characters that are no base64 digits and the encoded
\* words of the headers are broken
Malformed ==
  << "From: =?UTF-8?B?", "Subject: =?UTF-8?Q?=ZZ?=",
     "Content-Type: multipart/mixed; boundary=\"B\"", "",
     "--B", "Content-Type: text/plain", "Content-Transfer-Encoding: base64", "",
     "!!SGVs*bG8=" >>

\* a message with a Date header
Dated == TopHeaders \o <<"Date: Mon, 02 Nov 2026 10:00:00 +0100", "", "Hello">>

\* the messages on the server
Messages ==
  {MultipartXYZ, PlainWithDot, HtmlOnly, Base64Plain, EmptyBody, BlankBody, LongPlain,
   Malformed, Dated}

\* what the server puts on the wire for a line of a message: a line that begins
\* with '.' gets its first character doubled
Stuff(line) == IF StartsWith(line, ".") THEN "." \o line ELSE line

RECURSIVE StuffAll(_)
StuffAll(lines) ==
  IF lines = <<>> THEN <<>> ELSE <<Stuff(Head(lines))>> \o StuffAll(Tail(lines))

\* the answers to LIST the server gives
Listings == {<<"1 100">>, <<"1 100", "2 200">>}

\* lines of a multi-line answer as they may arrive on the wire, one per chunk
WireLines == {"..", "..Example", "x", ""}

\* the handle held by `socket` can deliver a 'data' event
CanReceive(s) ==
  /\ s.mode = "fetch" /\ s.connected /\ ~s.closed /\ ~s.resolved
  /\ s.socket \in s.listeners
  /\ IF s.socket = 0 THEN TRUE ELSE s.hs[s.socket] = "done"

\* a chunk of complete lines arrives on the handle held by `socket`
Receive(s, lines) ==
  processResponse([s EXCEPT !.lastActivity = s.now], lines \o <<"">>, s.socket)

\* the server accepts: '+OK' to the connection, STLS, USER and PASS
ServerAccepts ==
  /\ CanReceive(S)
  /\ currentStep \in {"greeting", "stls", "user", "pass"}
  /\ Commit(Receive(S, <<"+OK">>))

\* the whole answer to LIST in one chunk
ServerLists ==
  \E listing \in Listings :
    /\ CanReceive(S)
    /\ currentStep = "list"
    /\ Commit(Receive(S, <<"+OK">> \o listing \o <<".">>))

\* the answer to RETR one line per chunk: the status line, then lines of any
\* content, then the terminator
ServerSendsLine ==
  \E line \in WireLines \cup {"+OK", "."} :
    /\ CanReceive(S)
    /\ currentStep = "retr"
    /\ sent[Len(sent)].cmd = "RETR"
    /\ IF currentEmailData = <<>> THEN line = "+OK" ELSE line \in WireLines \cup {"."}
    /\ IF line = "." THEN TRUE ELSE Len(currentEmailData) <= MaxMail
    /\ Commit(Receive(S, <<line>>))

\* the whole answer to RETR in one chunk, for a message of Messages
ServerSendsMessage ==
  \E msg \in Messages :
    /\ CanReceive(S)
    /\ currentStep = "retr"
    /\ sent[Len(sent)].cmd = "RETR"
    /\ currentEmailData = <<>>
    /\ Commit(Receive(S, <<"+OK">> \o StuffAll(msg) \o <<".">>))

NextRetr ==
  \/ Connect
  \/ TlsSecure
  \/ ServerAccepts
  \/ ServerLists
  \/ ServerSendsLine
  \/ ServerSendsMessage
  \/ QuitTimerFires

SpecRetr == Init /\ [][NextRetr]_vars

(* ---------- two invocations of fetchPOP3Emails at once ---------- *)

\* the closure variables a call of fetchPOP3Emails declares: every `let` of the
\* promise body is a fresh variable of that call
Closure(enc) ==
  [ mode |-> "fetch", encryption |-> enc, now |-> 0, lastActivity |-> 0,
    connected |-> FALSE, socket |-> 0, hs |-> <<>>, listeners |-> {0},
    hsErr |-> {}, closed |-> FALSE, destroyCalls |-> 0, resolved |-> FALSE,
    resolveCalls |-> 0, result |-> NoResult, timeoutTimer |-> "armed",
    emptyTimer |-> FALSE, quitTimers |-> 0, dataBuffer |-> <<"">>,
    currentStep |-> "greeting", emailList |-> <<>>, currentEmailData |-> <<>>,
    currentEmailIndex |-> 0, emails |-> <<>>, startTLSUpgradePending |-> FALSE,
    sent |-> <<>>, staleLines |-> FALSE, stepFault |-> "none" ]

\* what is left of the closure variables p after a callback returned (see Commit)
Settled(p) == [p EXCEPT !.dataBuffer = IF p.resolved THEN <<"">> ELSE @]

\* the chunks a server sends in these sessions: one complete line each
PeerLines == {"+OK", "-ERR", "."}

\* the states the events of a session lead to from its closure variables p:
\* connect, data, the TLS handshake, error, close, the idle timeout and the 25 s
\* timer
SessionEvents(p) ==
  (IF ~p.connected /\ ~p.closed THEN {[p EXCEPT !.connected = TRUE]} ELSE {})
  \cup (IF CanReceive(p) THEN {Receive(p, <<line>>) : line \in PeerLines} ELSE {})
  \cup {onSecureConnect(p, k) : k \in {j \in 1..Len(p.hs) : p.hs[j] = "pending" /\ ~p.closed}}
  \cup (IF p.connected /\ ~p.closed /\ p.listeners \cup p.hsErr # {}
        THEN {handleError([p EXCEPT !.closed = TRUE], Reset)} ELSE {})
  \cup {emitClose(p)}
  \cup (IF ~p.closed /\ ~p.resolved THEN {handleError(p, "Socket timeout")} ELSE {})
  \cup (IF p.timeoutTimer = "armed"
        THEN {onTimeout([p EXCEPT !.timeoutTimer = "fired"])} ELSE {})
  \cup (IF p.emptyTimer THEN {onEmptyTimer([p EXCEPT !.emptyTimer = FALSE])} ELSE {})

\* the variables of the first invocation
own == << mode, encryption, now, lastActivity, connected, socket, hs, listeners, hsErr,
          closed, destroyCalls, resolved, resolveCalls, result,
          timeoutTimer, emptyTimer, quitTimers, dataBuffer, currentStep, emailList,
          currentEmailData, currentEmailIndex, emails, startTLSUpgradePending,
          sent, staleLines, stepFault >>

\* a second call of fetchPOP3Emails while the first session runs
SecondFetch ==
  \E enc \in Encryptions :
    /\ peer = <<>>
    /\ peer' = <<Closure(enc)>>
    /\ UNCHANGED << own, imap, post, engine >>

\* an event of the first session
OwnEvent ==
  \E t \in SessionEvents(S) :
    /\ mode = "fetch"
    /\ Commit(t)

\* an event of the second session when currentStep is one variable of both
PeerEventSharedStep ==
  /\ peer # <<>>
  /\ \E t \in SessionEvents(peer[1]) :
    /\ peer' = <<Settled(t)>>
    /\ currentStep' = t.currentStep
    /\ UNCHANGED << mode, encryption, now, lastActivity, connected, socket, hs, listeners,
                    hsErr, closed, destroyCalls, resolved, resolveCalls, result,
                    timeoutTimer, emptyTimer, quitTimers, dataBuffer, emailList,
                    currentEmailData, currentEmailIndex, emails, startTLSUpgradePending,
                    sent, staleLines, stepFault, imap, post, engine >>

\* an event of the second session
PeerEvent ==
  /\ peer # <<>>
  /\ \E t \in SessionEvents(peer[1]) :
    /\ peer' = <<Settled(t)>>
    /\ UNCHANGED << own, imap, post, engine >>

NextTwo ==
  \/ SecondFetch
  \/ OwnEvent
  \/ PeerEvent

SpecTwo == Init /\ [][NextTwo]_vars

(* ---------- testPOP3Connection ---------- *)

\* socket.write(...) of the connectivity test
testWrite(s, cmd) ==
  [s EXCEPT !.sent = Append(@, [cmd |-> cmd, arg |-> 0, handle |-> s.socket,
                                written |-> ~s.closed, reply |-> "none",
                                done |-> FALSE, late |-> s.resolveCalls > 0])]

\* upgradeToTLS of the test up to `socket = tlsSocket`: no listener is attached
\* to the wrapper before its connect callback runs
testUpgradeToTLS(s) ==
  [s EXCEPT !.listeners = @ \ {s.socket},
            !.hs = Append(@, "pending"),
            !.socket = Len(s.hs) + 1]

\* the connect callback of tls.connect in the test's upgradeToTLS
testOnSecureConnect(s, k) ==
  LET u == testWrite(setStep([s EXCEPT !.hs[k] = "done", !.socket = k], "user"), "USER")
  IN [u EXCEPT !.listeners = @ \cup {k}]

\* `if (!resolved) { resolved = true; resolve(value) }`
testResolve(s, value) ==
  IF ~s.resolved THEN resolve([s EXCEPT !.resolved = TRUE], value) ELSE s

\* the body of the for loop of handleData, for a line that is not blank
testLine(s0, line, h) ==
  LET s == NoteLine(s0, line, h) IN
  IF StartsWithOK(line)
  THEN CASE s.currentStep = "greeting" ->
              IF s.encryption = "tls"
              THEN testWrite(setStep(s, "stls"), "STLS")
              ELSE testWrite(setStep(s, "user"), "USER")
         [] s.currentStep = "stls" -> testUpgradeToTLS(s)
         [] s.currentStep = "user" -> testWrite(setStep(s, "pass"), "PASS")
         [] s.currentStep = "pass" ->
              testResolve(clearTimeout(testWrite(s, "QUIT")), Success(<<>>))
  ELSE IF StartsWithERR(line)
  THEN IF s.currentStep = "stls"
       THEN testWrite(setStep(s, "user"), "USER")
       ELSE testResolve(clearTimeout(s), Failure("Server error"))
  \* any other line is skipped: it answers no command
  ELSE s0

\* handleError of the test
testHandleError(s, msg) ==
  testResolve(clearTimeout(s), Failure(ClassifyError(msg)))

\* the callback of the 15 s timer: resolve, whatever `resolved` holds
testOnTimeout(s) == resolve(s, Failure("Connection timeout"))

\* The states handleData can end in, over the chunks read from handle h: its
\* loop runs on every line whatever `resolved` holds.  As in Responses, further
\* lines of the same chunk are enumerated only after the listeners of h were
\* detached.
RECURSIVE TestResponses(_, _, _)
TestResponses(s, h, n) ==
  IF ~Bounded(s) \/ Len(s.sent) > MaxTestSent THEN {}
  ELSE {s} \cup (IF n = 0 \/ h \in s.listeners THEN {}
                 ELSE UNION {TestResponses(testLine(s, line, h), h, n - 1) :
                               line \in Lines})

InitTest == mode = "test" /\ Start

\* the connection is established (the test has no 'connect' listener)
TestConnect ==
  /\ mode = "test"
  /\ ~connected /\ ~closed
  /\ Commit([S EXCEPT !.connected = TRUE])

\* a 'data' event on handle h
TestData ==
  \E h \in listeners, line \in Lines :
    /\ mode = "test"
    /\ connected /\ ~closed
    /\ IF h = 0 THEN TRUE ELSE hs[h] = "done"
    /\ \E t \in TestResponses(testLine(S, line, h), h, MaxChunk - 1) : Commit(t)

\* the TLS handshake of the k-th wrapper completes
TestTlsSecure ==
  \E k \in 1..Len(hs) :
    /\ mode = "test"
    /\ hs[k] = "pending" /\ ~closed
    /\ IF k = 1 THEN TRUE ELSE hs[k - 1] = "done"
    /\ Len(sent) < MaxTestSent
    /\ Commit(testOnSecureConnect(S, k))

\* an 'error' event on a handle with the error listener attached
TestSocketError ==
  \E msg \in ErrorMessages :
    /\ mode = "test"
    /\ ~closed
    /\ listeners # {}
    /\ msg \in ConnectErrors => ~connected
    /\ msg = WrongVersion => encryption = "ssl" /\ ~connected
    /\ msg = Reset => connected
    /\ Commit(testHandleError([S EXCEPT !.closed = TRUE], msg))

\* the peer closes the connection: the test has no 'close' listener
TestSocketClose ==
  /\ mode = "test"
  /\ connected /\ ~closed
  /\ Commit([S EXCEPT !.closed = TRUE])

\* the 15 s timer fires, at an unspecified time
TestTimeout ==
  /\ mode = "test"
  /\ timeoutTimer = "armed"
  /\ Commit(testOnTimeout([S EXCEPT !.timeoutTimer = "fired"]))

NextTest ==
  \/ TestConnect
  \/ TestData
  \/ TestTlsSecure
  \/ TestSocketError
  \/ TestSocketClose
  \/ TestTimeout

SpecTest == InitTest /\ [][NextTest]_vars

\* a session of either kind
InitAny == Init \/ InitTest

NextAny == Next \/ NextTest

SpecAny == InitAny /\ [][NextAny]_vars

(* ---------- fetchIMAPEmails ---------- *)

\* how far before the last message the fetch starts (342: total - 19)
WindowBack == 19

\* folders hold up to MaxTotal messages
MaxTotal == 22

ImapTimeoutError ==
  "Connection timeout - IMAP server did not respond within 25 seconds. "
  \o "Check host, port, and encryption setting."

\* the names of the header fields the fetch asks for, as the keys of `headers`
HeaderNames == {"from", "to", "subject", "date", "message-id"}
NoHeaders == [n \in HeaderNames |-> ""]

\* headers[name.toLowerCase()] = value.trim()
setHeader(headers, name, value) ==
  IF name = "" \/ toLowerCase(name) \notin HeaderNames THEN headers
  ELSE [headers EXCEPT ![toLowerCase(name)] = trim(value)]

\* where the name of line.match(/^([A-Z-]+):\s*(.*)$/i) ends, 0 without a match
headerNameEnd(line) ==
  LET At(c) == IF c > 0 /\ charAt(line, c) = ":" THEN c ELSE 0
  IN At(SkipWhile(line, 0, Letters \cup {"-"}))

\* the forEach over the lines of the header section and the assignment after it
RECURSIVE foldHeaderLines(_, _, _, _)
foldHeaderLines(lines, currentHeader, currentValue, headers) ==
  LET Rest(name, value, h) == foldHeaderLines(Tail(lines), name, value, h)
      Line(line, c) ==
        IF c > 0
        THEN Rest(substring(line, 0, c),
                  substringFrom(line, SkipWhile(line, c + 1, WhiteSpace)),
                  setHeader(headers, currentHeader, currentValue))
        ELSE IF StartsWith(line, " ") \/ StartsWith(line, "\t")
        THEN Rest(currentHeader, currentValue \o " " \o trim(line), headers)
        ELSE Rest(currentHeader, currentValue, headers)
  IN IF lines = <<>> THEN setHeader(headers, currentHeader, currentValue)
     ELSE Line(Head(lines), headerNameEnd(Head(lines)))

\* `headers` after the 'end' of the stream of the header section
imapHeaders(buffer) == foldHeaderLines(split(buffer, CRLF), "", "", NoHeaders)

\* email.date of the msg 'end' listener (415-421): toISOString throws for an
\* invalid date and the catch stores the header
imapDate(header) ==
  IF header = "" THEN nowISO
  ELSE IF newDate(header) >= 0 THEN toISOString(newDate(header))
  ELSE header

\* the record the msg 'end' listener pushes (id and toEmail left out), from
\* `headers`, the TEXT section and the parsed From header
imapRecord(headers, bodyBuffer, parsed) ==
  [ from |-> IF headers["from"] = "" THEN "Unknown"
             ELSE orElse(decodeMimeWord(parsed.name), parsed.email),
    fromEmail |-> IF headers["from"] = "" THEN "" ELSE parsed.email,
    subject |-> IF headers["subject"] = "" THEN "(No Subject)"
                ELSE orElse(decodeMimeWord(headers["subject"]), "(No Subject)"),
    date |-> imapDate(headers["date"]),
    body |-> imapBody(bodyBuffer),
    read |-> TRUE, starred |-> FALSE ]

imapEmail(headers, bodyBuffer) ==
  imapRecord(headers, bodyBuffer, parseEmailAddress(headers["from"]))

\* clearTimeout(timeout)
imapClearTimeout(c) == [c EXCEPT !.timeout = IF @ = "armed" THEN "cleared" ELSE @]

\* cleanup of fetchIMAPEmails: clearTimeout(timeout), imap.destroy()
imapCleanup(c) ==
  [imapClearTimeout(c) EXCEPT !.destroyCalls = @ + 1, !.state = "closed"]

\* resolve(r): the promise keeps the value of the first call
imapResolve(c, r) ==
  [c EXCEPT !.resolveCalls = @ + 1, !.result = IF c.resolveCalls = 0 THEN r ELSE @]

\* if (!resolved) { resolved = true; resolve(r) }
imapSettle(c, r) ==
  IF c.resolved THEN c ELSE imapResolve([c EXCEPT !.resolved = TRUE], r)

\* notes what a listener did after the 25 s timer had fired
NoteLate(c, what) ==
  IF c.timeout = "fired" THEN [c EXCEPT !.late = @ \cup {what}] ELSE c

\* the callback of setTimeout(..., 25000)
onImapTimeout(c) == imapResolve([c EXCEPT !.timeout = "fired"], Failure(ImapTimeoutError))

\* the 'ready' listener: imap.openBox(folder, true, callback)
onReady(c) == NoteLate([c EXCEPT !.state = "opening"], "openBox")

\* a fetch of the whole folder
fetchStartWholeFolder(total) == 1

\* the first sequence number of the fetch: Math.max(1, box.messages.total - 19)
fetchStart(total) == IF total - WindowBack > 1 THEN total - WindowBack ELSE 1

\* a callback of openBox without the branch for the empty folder
onOpenBoxFetchEmpty(c, err, total) ==
  IF err # ""
  THEN NoteLate(imapSettle(imapCleanup(c), Failure("Failed to open folder: " \o err)),
                "destroy")
  ELSE NoteLate([c EXCEPT !.state = "fetching", !.total = total, !.delivered = 0,
                          !.fetches = Append(@, <<fetchStart(total), total>>)],
                "fetch")

\* the callback of openBox, err being '' for null
onOpenBox(c, err, total) ==
  IF err # ""
  THEN NoteLate(imapSettle(imapCleanup(c), Failure("Failed to open folder: " \o err)),
                "destroy")
  ELSE IF total = 0
  THEN NoteLate(imapSettle(imapCleanup([c EXCEPT !.total = 0]), Success(<<>>)), "destroy")
  ELSE NoteLate([c EXCEPT !.state = "fetching", !.total = total, !.delivered = 0,
                          !.fetches = Append(@, <<fetchStart(total), total>>)],
                "fetch")

\* the 'message' listener of the fetch with the listeners it attaches, up to the
\* 'end' of the message: email.subject is never empty, so the record is pushed
onMessage(c, header, text) ==
  NoteLate([c EXCEPT !.emails = Append(@, imapEmail(imapHeaders(header), text)),
                     !.delivered = @ + 1],
           "push")

\* the 'error' listener of the fetch
onFetchError(c, err) ==
  NoteLate(imapSettle(imapCleanup(c), Failure("Fetch error: " \o err)), "destroy")

\* the 'end' listener of the fetch: imap.end()
onFetchEnd(c) == NoteLate([c EXCEPT !.state = "closing"], "end")

\* the message the 'error' listener of the connection resolves with
imapErrorMessage(msg) ==
  IF includes(msg, "ETIMEDOUT") \/ includes(msg, "ECONNREFUSED")
  THEN "Cannot connect to " \o HostPort \o ". Check server address, port, and firewall."
  ELSE IF \/ includes(msg, "Invalid credentials")
          \/ includes(msg, "Authentication failed")
          \/ includes(msg, "Logon failure")
  THEN "Authentication failed. Check username and password."
  ELSE IF includes(msg, "SSL") \/ includes(msg, "TLS") \/ includes(msg, "certificate")
  THEN "SSL/TLS error. Try toggling SSL setting. Port 993 typically uses SSL, "
       \o "port 143 typically uses StartTLS or no SSL."
  ELSE msg

\* the 'error' listener of the connection
onImapError(c, msg) ==
  NoteLate(imapSettle(imapCleanup(c), Failure(imapErrorMessage(msg))), "destroy")

\* the 'end' listener of the connection
onImapEnd(c) ==
  imapSettle(imapClearTimeout([c EXCEPT !.state = "closed"]), Success(c.emails))

\* the header section and the TEXT section the server sends for the message with
\* sequence number n
ImapMessages ==
  << << "From: Alice <alice@example.com>\r\nSubject: Hello\r\n"
        \o "Date: Mon, 02 Nov 2026 10:00:00 +0100\r\n\r\n",
        "Plain body\r\n" >>,
     << "Subject: A folded\r\n\tsubject\r\nDate: not a date\r\n\r\n", "" >>,
     << "FROM: bob@example.com\r\nX-Mailer: x\r\n\r\n", "<p>Html body</p>" >> >>
ImapMessage(n) == ImapMessages[(n % Len(ImapMessages)) + 1]

\* what the connection may report in an 'error' event
ImapErrors ==
  {Refused, "Invalid credentials (Failure)", "Timed out while authenticating with server",
   Reset}

\* the 25 s timer fires, at an unspecified time
ImapTimeout ==
  /\ mode = "imap" /\ imap.timeout = "armed"
  /\ imap' = onImapTimeout(imap)
  /\ UNCHANGED << own, peer, post, engine >>

\* the 'ready' event: the server accepted the login
ImapReady ==
  /\ mode = "imap" /\ imap.state = "connecting"
  /\ imap' = onReady(imap)
  /\ UNCHANGED << own, peer, post, engine >>

\* openBox calls back with an error
OpenBoxFails ==
  /\ mode = "imap" /\ imap.state = "opening"
  /\ imap' = onOpenBox(imap, "Mailbox doesn't exist", 0)
  /\ UNCHANGED << own, peer, post, engine >>

\* openBox calls back with a folder of `total` messages
OpenBoxOpens ==
  \E total \in 0..MaxTotal :
    /\ mode = "imap" /\ imap.state = "opening"
    /\ imap' = onOpenBox(imap, "", total)
    /\ UNCHANGED << own, peer, post, engine >>

\* the server sends the next message of the range asked for
FetchMessage ==
  /\ mode = "imap" /\ imap.state = "fetching"
  /\ imap.fetches[Len(imap.fetches)][1] + imap.delivered <= imap.total
  /\ imap' = onMessage(imap,
                       ImapMessage(imap.fetches[Len(imap.fetches)][1] + imap.delivered)[1],
                       ImapMessage(imap.fetches[Len(imap.fetches)][1] + imap.delivered)[2])
  /\ UNCHANGED << own, peer, post, engine >>

\* the fetch fails
FetchError ==
  /\ mode = "imap" /\ imap.state = "fetching"
  /\ imap' = onFetchError(imap, "Some of the requested messages no longer exist")
  /\ UNCHANGED << own, peer, post, engine >>

\* the server completes the fetch, with all messages of the range or fewer
FetchEnd ==
  /\ mode = "imap" /\ imap.state = "fetching"
  /\ imap' = onFetchEnd(imap)
  /\ UNCHANGED << own, peer, post, engine >>

\* an 'error' event of the connection
ImapError ==
  \E msg \in ImapErrors :
    /\ mode = "imap" /\ imap.state # "closed"
    /\ includes(msg, "ECONNREFUSED") => imap.state = "connecting"
    /\ includes(msg, "authenticating") \/ includes(msg, "credentials") =>
         imap.state = "connecting"
    /\ imap' = onImapError(imap, msg)
    /\ UNCHANGED << own, peer, post, engine >>

\* the 'end' event of the connection: the server closed it, after the logout of
\* imap.end() or on its own
ImapEnd ==
  /\ mode = "imap" /\ imap.state # "closed"
  /\ imap' = onImapEnd(imap)
  /\ UNCHANGED << own, peer, post, engine >>

InitImap == mode = "imap" /\ Start

NextImap ==
  \/ ImapTimeout
  \/ ImapReady
  \/ OpenBoxFails
  \/ OpenBoxOpens
  \/ FetchMessage
  \/ FetchError
  \/ FetchEnd
  \/ ImapError
  \/ ImapEnd

SpecImap == InitImap /\ [][NextImap]_vars

(* ---------- a server that sends '.' lines after the last message ---------- *)

\* most '.' lines the server sends after the '.' of the last selected message
MaxExtraDots == 1

\* one more '.' line after QUIT was sent, before the session resolves
ServerSendsExtraDot ==
  /\ CanReceive(S)
  /\ currentStep = "retr"
  /\ sent[Len(sent)].cmd = "QUIT"
  /\ Cardinality({i \in DOMAIN sent : sent[i].cmd = "QUIT"}) <= MaxExtraDots
  /\ Commit(Receive(S, <<".">>))

NextDots == NextRetr \/ ServerSendsExtraDot

SpecDots == Init /\ [][NextDots]_vars

(* ---------- a server that may stop answering at any point ---------- *)

\* the answer to LIST of an empty mailbox
ServerListsNothing ==
  /\ CanReceive(S)
  /\ currentStep = "list"
  /\ Commit(Receive(S, <<"+OK", ".">>))

\* a chunk that ends in the middle of the status line of an answer: '+OK'
\* without CRLF
ServerSendsPartial ==
  /\ CanReceive(S)
  /\ currentStep # "retr"
  /\ Last(dataBuffer) = ""
  /\ Commit(processResponse([S EXCEPT !.lastActivity = now], <<"+OK">>, socket))

\* a server that answers line by line and at any point may send a part of a
\* line, go silent, leave an answer or a TLS handshake unfinished, fail or close
NextStall ==
  \/ Connect
  \/ TlsSecure
  \/ ServerAccepts
  \/ ServerLists
  \/ ServerSendsLine
  \/ QuitTimerFires
  \/ ServerListsNothing
  \/ ServerSendsPartial
  \/ SocketError
  \/ SocketClose
  \/ IdleTimeout
  \/ FetchTimeout
  \/ EmptyTimerFires

\* the event loop runs a timer that is pending: the 25 s timer, the 100 ms timer
\* of the empty list and the 500 ms timers after QUIT fire at some time
SpecStall ==
  /\ Init /\ [][NextStall]_vars
  /\ WF_vars(FetchTimeout) /\ WF_vars(EmptyTimerFires) /\ WF_vars(QuitTimerFires)

(* ---------- the retrieval of either kind of account ---------- *)

InitInbox == Init \/ InitImap

\* a POP3 session against a server that delivers messages, or an IMAP fetch
NextInbox == NextRetr \/ NextImap

SpecInbox == InitInbox /\ [][NextInbox]_vars

(* ---------- the claims ---------- *)

Sent(cmd) == {i \in DOMAIN sent : sent[i].cmd = cmd}
\* the command sent[i] was sent after a command cmd that got the reply `reply`
After(i, cmd, reply) == \E j \in Sent(cmd) : j < i /\ sent[j].reply = reply

\* C1: the session step only advances along greeting -> [stls] -> user -> pass ->
\* list -> retr: no assignment to currentStep returns to an earlier step or skips
\* a mandatory one.
C1_StepOnlyAdvances == stepFault = "none"

\* C2: PASS is never sent before the +OK reply to USER has been received, and LIST
\* and RETR are never sent before the +OK reply to PASS has been received.
C2_AuthBeforeUse ==
  \A i \in DOMAIN sent :
    /\ sent[i].cmd = "PASS" => After(i, "USER", "+OK")
    /\ sent[i].cmd \in {"LIST", "RETR"} => After(i, "PASS", "+OK")

C2_Witness == Sent("PASS") # {} /\ Sent("LIST") # {} /\ Sent("RETR") # {}

\* C3: in STARTTLS mode, after the +OK reply to STLS every command is written on
\* the upgraded handle, the plaintext handle 0 is not listened to any more, and no
\* line read in plaintext is processed as a protocol response.
C3_UpgradedHandleOnly ==
  /\ \A i \in DOMAIN sent : After(i, "STLS", "+OK") => sent[i].handle # 0
  /\ hs # <<>> => 0 \notin listeners
  /\ ~staleLines

\* C4: commands are strictly sequential: at most one command is outstanding (sent
\* and its response not yet consumed) at any time.
C4_OneOutstanding == Cardinality({i \in DOMAIN sent : ~sent[i].done}) <= 1

\* C5: the connection handle is closed exactly once: it is not left open once the
\* session has resolved, and it is not destroyed a second time.
C5_ClosedExactlyOnce ==
  /\ resolveCalls > 0 => closed
  /\ destroyCalls <= 1

\* C6: resolve is invoked once and only once.
C6_ResolveOnce == resolveCalls <= 1

\* C7: a close of the stream before the session has retrieved all selected messages
\* (before it sent QUIT) ends the fetch with success=false: a success is only
\* reported by a session that has sent QUIT.
C7_PrematureCloseFails ==
  resolveCalls > 0 /\ result.success => Sent("QUIT") # {}

TimeoutErrors == {"Socket timeout", "Connection timeout"}

\* C8: the 25 s timer aborts the session from any non-terminal state: while the
\* session is unresolved the timer is armed, and when it fires on an unresolved
\* session the handle is destroyed and the session resolves with success=false and
\* the timeout error; a session that resolved with a timeout error (of the timer or
\* of the socket's idle 'timeout' event) has destroyed its handle.
C8_TimeoutAborts ==
  /\ [](~resolved => timeoutTimer = "armed")
  /\ [][(timeoutTimer = "armed" /\ timeoutTimer' = "fired" /\ ~resolved) =>
          /\ resolved' /\ closed'
          /\ destroyCalls' = destroyCalls + 1
          /\ resolveCalls' = 1
          /\ result' = Failure("Connection timeout")]_vars
  /\ [](resolveCalls > 0 /\ result.error \in TimeoutErrors =>
          ~result.success /\ closed /\ destroyCalls >= 1)

C8_Witness ==
  /\ result = Failure("Connection timeout")
  /\ currentStep = "stls" /\ hs = <<"pending">>
  /\ closed

\* C9 (as stated): against a server that never sends, the session resolves as a
\* timeout error no earlier than the 25 s fetch threshold, the handle closed once.
C9_NotBeforeFetchTimeout ==
  resolveCalls > 0 =>
    /\ ~result.success /\ result.error \in TimeoutErrors
    /\ now >= FetchTimeoutMs
    /\ closed /\ destroyCalls = 1

\* C9 (amended): against a server that never sends, the session resolves, as a
\* timeout error and no earlier than the 20 s socket idle threshold (the idle
\* 'timeout' event or the 25 s timer, whichever comes first), the handle closed once.
C9_NotBeforeIdleTimeout ==
  /\ [](resolveCalls > 0 =>
          /\ ~result.success /\ result.error \in TimeoutErrors
          /\ now >= SocketIdleMs
          /\ closed /\ destroyCalls = 1)
  /\ <>(resolveCalls > 0)

C9_Witness ==
  /\ result = Failure("Socket timeout") /\ now < FetchTimeoutMs
  /\ closed /\ destroyCalls = 1

\* C10: in STARTTLS mode no USER and no PASS is written before an STLS command
\* has been sent and answered.
C10_StlsBeforeUser ==
  encryption = "tls" =>
    \A i \in DOMAIN sent :
      sent[i].cmd \in {"USER", "PASS"} =>
        \E j \in Sent("STLS") : j < i /\ sent[j].done

C10_Witness ==
  /\ encryption = "tls"
  /\ Sent("PASS") # {}
  /\ \E j \in Sent("STLS") : sent[j].reply = "-ERR"

\* the STLS commands that were answered -ERR
StlsRejected == {j \in Sent("STLS") : sent[j].reply = "-ERR"}

C12_ImplicitTlsOnly ==
  /\ [](encryption = "ssl" =>
          /\ \A i \in DOMAIN sent : TlsHandle(sent[i].handle, encryption)
          /\ Sent("STLS") = {} /\ hs = <<>>)
  /\ [][(encryption = "ssl" /\ Len(sent') > Len(sent)) =>
          /\ connected
          /\ sent'[Len(sent')].handle = 0]_vars

C12_Witness ==
  /\ mode = "fetch" /\ encryption = "ssl" /\ connected
  /\ \E i \in Sent("PASS") : sent[i].written /\ TlsHandle(sent[i].handle, encryption)

\* C13: while the session is in step 'greeting' no command has been sent; the
\* line it reads there makes it advance (to 'stls' or 'user', one command sent,
\* nothing resolved) when it begins with +OK, and otherwise ends it: success=false
\* with the greeting error, the handle destroyed, still no command sent.
C13_GreetingOneLine ==
  /\ currentStep = "greeting" => sent = <<>>
  /\ (mode = "fetch" /\ currentStep = "greeting" /\ ~resolved) =>
       \A line \in Lines :
         LET t == processLine(S, line, socket) IN
         IF StartsWithOK(line)
         THEN /\ t.currentStep \in {"stls", "user"}
              /\ Len(t.sent) = 1 /\ t.sent[1].cmd \in {"STLS", "USER"}
              /\ ~t.resolved /\ t.resolveCalls = 0 /\ ~t.closed
         ELSE /\ t.resolved /\ t.resolveCalls = 1
              /\ t.result = Failure("Server greeting failed")
              /\ t.closed /\ t.timeoutTimer = "cleared"
              /\ t.sent = <<>>
  /\ (resolveCalls > 0 /\ result = Failure("Server greeting failed")) =>
       sent = <<>> /\ closed /\ currentStep = "greeting"

C13_Witness ==
  /\ result = Failure("Server greeting failed") /\ resolveCalls = 1
  /\ sent = <<>> /\ closed /\ connected

\* the error a -ERR line ends the session with, by the step it is read in
ErrOfStep(step) ==
  CASE step = "user" -> "Username rejected"
    [] step = "pass" -> "Authentication failed"
    [] step = "list" -> "LIST failed"

\* C14: a -ERR line read in step 'user', 'pass' or 'list' ends the fetch: the
\* session resolves success=false with the error of that step, the handle is
\* destroyed, and no command is sent by it or after it; a USER or PASS that was
\* answered -ERR is the last command of the session, and a session that ended
\* with 'LIST failed' has sent LIST last (no RETR after it).
C14_ErrIsTerminal ==
  /\ (mode = "fetch" /\ ~resolved /\ currentStep \in {"user", "pass", "list"}) =>
       LET t == processLine(S, "-ERR", socket) IN
       /\ t.resolved /\ t.resolveCalls = 1
       /\ t.result = Failure(ErrOfStep(currentStep))
       /\ t.closed /\ t.destroyCalls = destroyCalls + 1
       /\ t.timeoutTimer = "cleared"
       /\ Len(t.sent) = Len(sent)
  /\ \A i \in Sent("USER") \cup Sent("PASS") :
       sent[i].reply = "-ERR" =>
         /\ i = Len(sent)
         /\ resolveCalls > 0 /\ closed
         /\ result = Failure(IF sent[i].cmd = "USER" THEN ErrOfStep("user")
                                                     ELSE ErrOfStep("pass"))
  /\ (resolveCalls > 0 /\ result = Failure(ErrOfStep("list"))) =>
       /\ sent[Len(sent)].cmd = "LIST"
       /\ closed
  /\ (resolveCalls > 0 /\ result.error \in {ErrOfStep("user"), ErrOfStep("pass"),
                                            ErrOfStep("list")}) =>
       \A i \in DOMAIN sent : ~sent[i].late

C14_Witness ==
  /\ result = Failure("Authentication failed") /\ closed
  /\ sent[Len(sent)].cmd = "PASS" /\ sent[Len(sent)].reply = "-ERR"
  /\ Sent("LIST") = {}

\* the arguments of the RETR commands sent, in the order they were sent
RetrArgs == [i \in 1..Cardinality(Sent("RETR")) |->
               sent[CHOOSE k \in Sent("RETR") :
                      Cardinality({j \in Sent("RETR") : j <= k}) = i].arg]

\* the sequence numbers of the entries the session selects: emailList.slice(-10)
Selected == [i \in 1..Len(SliceLast(emailList, FetchLimit)) |->
               SliceLast(emailList, FetchLimit)[i].num]

\* C15: for a LIST response with n >= 1 entries the RETR commands sent are, in
\* order and each once, those of the last min(10, n) entries; when QUIT has been
\* sent every one of them was sent and there is exactly one record per selected
\* entry; and the session that resolves after QUIT resolves as a success with
\* exactly these min(10, n) records.
C15_FetchLastTen ==
  /\ Len(RetrArgs) <= Len(Selected)
  /\ RetrArgs = SubSeq(Selected, 1, Len(RetrArgs))
  /\ (Sent("QUIT") # {} /\ emailList # <<>>) =>
       /\ Len(RetrArgs) = Len(Selected)
       /\ Len(emails) = Len(Selected)
       /\ resolveCalls > 0 =>
            result.success /\ Len(result.emails) = Len(Selected)

\* C16: when the '.' that ends the LIST response is read with no entry listed,
\* the session sets resolved, sends QUIT and arms the 100 ms timer; while that
\* timer is pending nothing has resolved the promise, and its callback resolves
\* success=true with an empty email list; no RETR is ever sent by such a session.
C16_EmptyListSucceeds ==
  /\ []((mode = "fetch" /\ currentStep = "list" /\ ~resolved /\ emailList = <<>>) =>
          LET t == processLine(S, ".", socket) IN
          /\ t.resolved /\ t.emptyTimer /\ t.timeoutTimer = "cleared"
          /\ t.sent[Len(t.sent)].cmd = "QUIT"
          /\ t.resolveCalls = 0 /\ t.currentStep = "list")
  /\ [](emptyTimer => resolved /\ resolveCalls = 0 /\ emailList = <<>>)
  /\ []((Sent("QUIT") # {} /\ emailList = <<>>) =>
          /\ Sent("RETR") = {}
          /\ resolveCalls > 0 => resolveCalls = 1 /\ result = Success(<<>>) /\ closed)
  /\ [][(emptyTimer /\ ~emptyTimer') =>
          resolveCalls' = 1 /\ result' = Success(<<>>) /\ closed']_vars

C16_Witness ==
  /\ Sent("LIST") # {} /\ Sent("QUIT") # {} /\ emailList = <<>>
  /\ ~emptyTimer /\ resolveCalls = 1 /\ result = Success(<<>>)

\* the lines of a string that is a sequence of CRLF-terminated lines
LinesOf(str) == split(str, CRLF)

\* C17 as stated: a received '..Example' is appended as '.Example', and no line
\* equal to '.' is ever in the accumulated raw block or in the body of a record
C17_NoDotLine ==
  /\ (currentStep = "retr" /\ CanReceive(S)) =>
       Last(processLine(S, "..Example", socket).currentEmailData) = ".Example"
  /\ \A i \in 1..Len(currentEmailData) : currentEmailData[i] # "."
  /\ \A k \in 1..Len(emails) :
       \A j \in 1..Len(LinesOf(emails[k].body)) : LinesOf(emails[k].body)[j] # "."

\* C17: while a message is being retrieved, a received line other than the
\* terminator is appended to the raw block, with its first character removed
\* when it begins with '..' (so '..Example' is appended as '.Example'); the
\* terminator '.' is never appended, and the line appended is '.' exactly when
\* the line received is '..'
C17_Unstuffing ==
  (currentStep = "retr" /\ CanReceive(S)) =>
    \A line \in WireLines \cup {"."} :
      LET t == processLine(S, line, socket)
          expected == IF substring(line, 0, 2) = ".." THEN substringFrom(line, 1) ELSE line
      IN IF line = "."
         THEN t.currentEmailData \in {currentEmailData, <<>>}
         ELSE /\ t.currentEmailData = Append(currentEmailData, expected)
              /\ line = "..Example" => Last(t.currentEmailData) = ".Example"
              /\ Last(t.currentEmailData) = "." <=> line = ".."

C17_Witness ==
  /\ currentStep = "retr"
  /\ \E i \in 1..Len(currentEmailData) : currentEmailData[i] = ".Example"
  /\ \E i \in 1..Len(currentEmailData) : currentEmailData[i] = "."

\* C18: with two fetch invocations interleaved arbitrarily, every step (an event
\* of one session: connect, data, handshake, error, close, timeout, timer)
\* leaves all closure variables of the other session as they were (its step,
\* buffers, message list, transcript, timers and result), and the result a
\* session has resolved with is not changed by anything that happens later.
C18_SessionsIndependent ==
  /\ [][S' = S \/ peer' = peer]_vars
  /\ [][resolveCalls > 0 => result' = result]_vars
  /\ [][(peer # <<>> /\ peer[1].resolveCalls > 0) => peer'[1].result = peer[1].result]_vars

C18_Witness ==
  /\ peer # <<>>
  /\ peer[1].resolveCalls = 1 /\ ~peer[1].result.success /\ peer[1].closed
  /\ currentStep = "list" /\ ~resolved /\ ~closed /\ Len(sent) >= 3

\* the raw block of the message retrieved last, once every message was retrieved
LastRetrieved(msg) == Sent("QUIT") # {} /\ currentEmailData = <<"+OK">> \o msg

\* the text of a message after its header block (the TEXT section of the message)
TextOf(msg) ==
  LET raw == JoinLines(msg)
  IN substringFrom(raw, indexOf(raw, CRLF \o CRLF) + 4)

\* C19: the body of a record is never raw MIME source (no boundary delimiter
\* line, no part header), and the record the retrieval path produces for the
\* multipart message with boundary XYZ (a text/plain part 'Plain body' and a
\* text/html part) has the body 'Plain body' exactly.
C19_BodyIsDecoded ==
  /\ \A k \in 1..Len(emails) :
       ~includes(emails[k].body, "--XYZ") /\ ~includes(emails[k].body, "Content-Type:")
  /\ LastRetrieved(MultipartXYZ) => emails[Len(emails)].body = "Plain body"

\* C20: the body of every record has at least one character and at most 5000,
\* in the list of the session and in its result; for the message retrieved last
\* the body is the decoded text cut to 5000 characters, or '(No content)' when
\* the decoded text is empty, and the record the IMAP path builds from the same
\* text has the same body.
C20_BodyBounded ==
  /\ \A k \in 1..Len(emails) :
       Len(emails[k].body) >= 1 /\ Len(emails[k].body) <= BodyLimit
  /\ \A k \in 1..Len(result.emails) :
       Len(result.emails[k].body) >= 1 /\ Len(result.emails[k].body) <= BodyLimit
  /\ \A msg \in Messages :
       LastRetrieved(msg) =>
         LET decoded == parseMIMEBody(TextOf(msg))
             body == emails[Len(emails)].body
         IN /\ decoded = "" => body = "(No content)"
            /\ decoded # "" =>
                 body = SubSeq(decoded, 1, IF Len(decoded) < 5000 THEN Len(decoded) ELSE 5000)
            /\ imapBody(TextOf(msg)) = body

\* a result with the record of a message whose decoded text is empty and the
\* record of a message whose decoded text was cut
C20_Witness ==
  /\ resolveCalls = 1 /\ result.success /\ Len(result.emails) = 2
  /\ result.emails[1].body = "(No content)"
  /\ LastRetrieved(LongPlain) /\ Len(result.emails[2].body) = BodyLimit

\* the RETR commands whose answer was read up to its terminator
Retrieved == {j \in Sent("RETR") : sent[j].done}

\* C21: a message that cannot be decoded as it declares never aborts the batch:
\* every message read up to its terminator has its record, in the order of
\* retrieval, and is followed by the next RETR or by QUIT; the session that
\* resolves does so as a success with one record per selected message, each with
\* a body; the record of the malformed message carries what could be decoded.
C21_DecodeFailureKeepsBatch ==
  /\ Len(emails) = Cardinality(Retrieved)
  /\ \A j \in Retrieved : j < Len(sent) /\ sent[j + 1].cmd \in {"RETR", "QUIT"}
  /\ LastRetrieved(Malformed) =>
       /\ emails[Len(emails)].body = "Hello"
       /\ emails[Len(emails)].subject = "=ZZ"
  /\ resolveCalls > 0 =>
       /\ result.success /\ result.error = ""
       /\ Len(result.emails) = Len(Selected)
       /\ \A k \in 1..Len(result.emails) : result.emails[k].body # ""

\* the malformed message was retrieved first, another message after it, and the
\* session resolved with both records
C21_Witness ==
  /\ resolveCalls = 1 /\ result.success /\ Len(result.emails) = 2
  /\ result.emails[1].body = "Hello" /\ result.emails[1].subject = "=ZZ"
  /\ LastRetrieved(MultipartXYZ)

\* C22: for a folder of total >= 1 messages fetchIMAPEmails asks once, for the
\* sequence range max(1, total - 19)..total: the last min(20, total) messages,
\* never more than 20, and no more records than that are collected
C22_FetchWindow ==
  /\ Len(imap.fetches) <= 1
  /\ imap.state \in {"fetching", "closing"} => Len(imap.fetches) = 1
  /\ \A k \in 1..Len(imap.fetches) :
       /\ imap.total >= 1
       /\ imap.fetches[k][2] = imap.total
       /\ imap.fetches[k][1] >= 1
       /\ imap.fetches[k][1] \in {1, imap.total - 19}
       /\ imap.total > 20 => imap.fetches[k][1] = imap.total - 19
       /\ imap.fetches[k][2] - imap.fetches[k][1] + 1
            = (IF imap.total < 20 THEN imap.total ELSE 20)
       /\ Len(imap.emails) <= imap.fetches[k][2] - imap.fetches[k][1] + 1
  /\ Len(imap.emails) <= 20

C22_Witness ==
  /\ imap.total = 22 /\ imap.fetches = << <<3, 22>> >>
  /\ Len(imap.emails) = 20 /\ imap.state = "closing"

C22_WitnessSmall ==
  /\ imap.total = 2 /\ imap.fetches = << <<1, 2>> >> /\ Len(imap.emails) = 2

C24_TimeoutEndsFetch ==
  imap.timeout = "fired" =>
    /\ imap.state = "closed" /\ imap.destroyCalls = 1
    /\ ~imap.result.success /\ imap.result.error = ImapTimeoutError
    /\ imap.resolveCalls = 1
    /\ imap.late = {}

\* what holds of the timer: the promise keeps the timeout error
C24_TimeoutKeepsError == imap.timeout = "fired" => imap.result = Failure(ImapTimeoutError)

\* C25: a result that reports a failure has success = false and never carries
\* the raw text of a refused or timed-out connection, of a failed name lookup or
\* of a TLS handshake failure; the connection message names host:port and asks
\* to check the address, the TLS message asks to change the encryption setting
C25_ErrorsClassified ==
  resolveCalls > 0 /\ result.error # "" =>
    /\ ~result.success
    /\ \A code \in {"ECONNREFUSED", "ETIMEDOUT", "ENOTFOUND", "EPROTO",
                     "wrong version number"} : ~includes(result.error, code)
    /\ includes(result.error, "Cannot connect") =>
         /\ includes(result.error, HostPort)
         /\ includes(result.error, "Check server address")
    /\ includes(result.error, "SSL/TLS mismatch") =>
         includes(result.error, "Try changing encryption setting")

\* what holds: the same without the failed name lookup
C25_RefusedAndTlsClassified ==
  resolveCalls > 0 /\ result.error # "" =>
    /\ ~result.success
    /\ \A code \in {"ECONNREFUSED", "ETIMEDOUT", "EPROTO", "wrong version number"} :
         ~includes(result.error, code)
    /\ includes(result.error, "Cannot connect") =>
         /\ includes(result.error, HostPort)
         /\ includes(result.error, "Check server address")
    /\ includes(result.error, "SSL/TLS mismatch") =>
         includes(result.error, "Try changing encryption setting")

\* the Date header of the message with sequence number n of the IMAP folder
ImapDateHeader(n) == imapHeaders(ImapMessage(n)[1])["date"]

\* the date the record of a message with the Date header `header` is to carry
isoDateOf(header) ==
  IF header # "" /\ newDate(header) >= 0 THEN toISOString(newDate(header)) ELSE nowISO

\* C26: the date of every record, of a POP3 session and of an IMAP fetch, is an
\* ISO-8601 timestamp: the Date header of its message converted, or the current
\* time when the message has none or one that is no date
C26_DateIsISO ==
  /\ \A k \in 1..Len(emails) : isISO8601(emails[k].date)
  /\ LastRetrieved(Dated) => emails[Len(emails)].date = "2026-11-02T09:00:00.000Z"
  /\ mode = "imap" =>
       \A k \in 1..Len(imap.emails) :
         /\ isISO8601(imap.emails[k].date)
         /\ imap.emails[k].date = isoDateOf(ImapDateHeader(imap.fetches[1][1] + k - 1))

\* what holds: a record of a POP3 session carries the text of the Date header
\* as it is, a record of an IMAP fetch the text of a Date header that is no date
C26_RawHeaderStored ==
  /\ LastRetrieved(Dated) =>
       emails[Len(emails)].date = "Mon, 02 Nov 2026 10:00:00 +0100"
  /\ \A k \in 1..Len(emails) :
       emails[k].date \in {nowISO, "Mon, 02 Nov 2026 10:00:00 +0100"}
  /\ mode = "imap" =>
       \A k \in 1..Len(imap.emails) :
         imap.emails[k].date \in {nowISO, "2026-11-02T09:00:00.000Z", "not a date"}

\* C27: once the 15 s timer of testPOP3Connection has fired, the handle held by
\* `socket` is destroyed and the test has resolved once, as a timeout error
C27_TestTimeoutAborts ==
  mode = "test" /\ timeoutTimer = "fired" =>
    /\ closed /\ destroyCalls > 0
    /\ resolveCalls = 1
    /\ ~result.success /\ result.error = "Connection timeout"

\* what holds: the test resolves as a timeout error and destroys nothing
C27_TestTimeoutResolves ==
  mode = "test" =>
    /\ destroyCalls = 0
    /\ timeoutTimer = "fired" => result = Failure("Connection timeout")

\* C28: a POP3 session makes one connection attempt and does not retry: an
\* 'error' event of the socket in a session that has not resolved resolves it
\* as a failure; once the connection is closed it stays closed, no handle is
\* created and no command is sent; a connection that was made is not made again
C28_NoRetries ==
  [][ /\ SocketError /\ ~resolved =>
           /\ resolved' /\ closed' /\ resolveCalls' = resolveCalls + 1
           /\ ~result'.success /\ result'.error \in {ClassifyError(msg) : msg \in ErrorMessages}
           /\ sent' = sent /\ hs' = hs /\ socket' = socket
      /\ closed => closed' /\ sent' = sent /\ hs' = hs /\ socket' = socket
      /\ connected => connected'
      /\ resolveCalls > 0 /\ ~result.success => result' = result /\ sent' = sent ]_vars

\* a connection attempt that was refused: the session is over
C28_Witness ==
  /\ ~connected /\ closed /\ resolved /\ resolveCalls = 1 /\ destroyCalls = 1
  /\ result = Failure(CannotConnect) /\ sent = <<>> /\ hs = <<>>

\* an error in the middle of a session: the commands sent so far are all there is
C28_WitnessMidSession ==
  /\ connected /\ closed /\ resolved /\ result = Failure(Reset)
  /\ Sent("USER") # {} /\ Sent("PASS") # {} /\ Sent("LIST") = {}

\* QUIT was sent when the last selected message had been read to its '.'
QuitAfterLastRetr == \E i \in Sent("QUIT") : i > 1 /\ sent[i - 1].cmd = "RETR"

\* C29: once the '.' of the last selected RETR has been consumed and QUIT sent,
\* the fetch resolves as a success that carries the records retrieved, one per
\* selected message, whatever happens before the 500 ms timer fires
C29_QuitSentMeansSuccess ==
  QuitAfterLastRetr /\ resolveCalls > 0 =>
    /\ result.success /\ result.error = ""
    /\ Len(result.emails) = Len(Selected)

\* what holds: after QUIT the session resolves as a success or with the message
\* of an error, of the idle timeout or of the 25 s timer
C29_QuitSentOutcomes ==
  QuitAfterLastRetr /\ resolveCalls > 0 =>
    \/ result.success /\ Len(result.emails) >= Len(Selected)
    \/ /\ ~result.success /\ result.emails = <<>>
       /\ result.error \in {ClassifyError(msg) : msg \in ErrorMessages} \cup TimeoutErrors

\* C30: whatever lines the server sends, the list of records never holds more
\* than 10 records nor more records than RETR commands were sent, and QUIT is
\* sent at most once
C30_RecordsBounded ==
  /\ Len(emails) <= FetchLimit /\ Len(result.emails) <= FetchLimit
  /\ Len(emails) <= Cardinality(Sent("RETR"))
  /\ Len(result.emails) <= Cardinality(Sent("RETR"))
  /\ Cardinality(Sent("QUIT")) <= 1

\* what holds: one record per '.' line read in step 'retr', and one QUIT per
\* such line from the last selected message on
C30_RecordPerDotLine ==
  /\ Len(emails) <= Cardinality(Sent("RETR")) + Cardinality(Sent("QUIT"))
  /\ Len(emails) > Cardinality(Sent("RETR")) =>
       Cardinality(Sent("QUIT")) = Len(emails) - Cardinality(Sent("RETR")) + 1

\* C31: once a POP3 session, fetch or connectivity test, has resolved, no
\* command is written to the connection any more, whatever the server sends
C31_NoCommandAfterResolve ==
  \A i \in DOMAIN sent : sent[i].late => ~sent[i].written

\* what holds of fetchPOP3Emails: no command is written after resolve was called
C31_FetchWritesNothingLate ==
  mode = "fetch" => \A i \in DOMAIN sent : sent[i].late => ~sent[i].written

\* the messages a socket error or a timer resolves a session with
ClassifiedErrors == {ClassifyError(msg) : msg \in ErrorMessages} \cup TimeoutErrors

\* the lines considered as lines of the answer to RETR
RetrLines == (Lines \cup WireLines \cup {"-ERR no such message", "+OK 100 octets"}) \ {"."}

\* C32: in step 'retr' every line other than '.' is appended to the raw block,
\* the status line of the answer ('+OK ...' or '-ERR ...') included, and does
\* nothing else: the step stays 'retr', nothing is sent, resolved or closed and
\* no record is added; the block of a RETR begins with its status line
C32_RetrAppendsEveryLine ==
  /\ (currentStep = "retr" /\ CanReceive(S)) =>
       LET Appended(t, line) ==
           /\ t.currentEmailData
                = Append(currentEmailData,
                         IF substring(line, 0, 2) = ".." THEN substringFrom(line, 1)
                         ELSE line)
           /\ t.currentStep = "retr"
           /\ Len(t.sent) = Len(sent)
           /\ ~t.resolved
           /\ t.resolveCalls = resolveCalls
           /\ ~t.closed
           /\ t.emails = emails
           /\ t.currentEmailIndex = currentEmailIndex
           EachLine(s) == \A line \in RetrLines : Appended(processLine(s, line, socket), line)
       IN EachLine(S)
  /\ (currentStep = "retr" /\ resolveCalls > 0) =>
       \/ result.success
       \/ result.error \in ClassifiedErrors

\* the answer to RETR was '-ERR': the line is in the raw block and the session
\* waits in step 'retr'
C32_Witness ==
  /\ currentStep = "retr" /\ currentEmailData = <<"-ERR">>
  /\ ~resolved /\ ~closed /\ resolveCalls = 0
  /\ sent[Len(sent)].cmd = "RETR" /\ emails = <<>>

\* C33: every fetch session resolves at some time, whatever the server sends or
\* does not send: while resolve has not been called a timer whose callback
\* resolves is pending (the 25 s timer, the 100 ms timer of the empty list or a
\* 500 ms timer after QUIT)
C33_EventuallyResolves ==
  /\ [](resolveCalls = 0 => timeoutTimer = "armed" \/ emptyTimer \/ quitTimers > 0)
  /\ [](~resolved => timeoutTimer = "armed")
  /\ <>(resolveCalls > 0)

\* the answer to RETR was never terminated: the 25 s timer resolved the session
\* with two lines of the answer in the block
C33_Witness ==
  /\ currentStep = "retr" /\ Len(currentEmailData) >= 2
  /\ sent[Len(sent)].cmd = "RETR"
  /\ resolveCalls = 1 /\ result = Failure("Connection timeout") /\ closed

(* ---------- the debug transcript of a POP3 fetch ---------- *)

\* config.username, and two values of config.password
Username == "info"
Passwords == {"hunter2", "s3cret"}

\* the text sendCmd is called with: `USER ${config.username}`,
\* `PASS ${config.password}`, `RETR ${num}`, and the bare commands
commandText(c, password) ==
  CASE c.cmd = "USER" -> "USER " \o Username
    [] c.cmd = "PASS" -> "PASS " \o password
    [] c.cmd = "RETR" -> "RETR " \o ToString(c.arg)
    [] OTHER -> c.cmd

\* the entries sendCmd has pushed to debugLog up to the first call of resolve,
\* in a session whose config.password is `password`; debugLog.join('\n') is the
\* `debug` of every result and the POST handler passes it on unchanged
sendCmdLog(password) ==
  LET early == SelectSeq(sent, LAMBDA c : ~c.late)
  IN [i \in DOMAIN early |-> ">>> " \o commandText(early[i], password)]

\* C34: the debug transcript a resolved fetch session returns is the same for
\* every password: the control flow of the session never reads config.password,
\* so two sessions with the same server behaviour are in the same state and
\* differ at most in the entries sendCmd logged
C34_DebugIndependentOfPassword ==
  mode = "fetch" /\ resolveCalls > 0
    => \A p, q \in Passwords : sendCmdLog(p) = sendCmdLog(q)

\* up to the answer to USER no entry of the transcript holds the password
C34_NoSecretBeforePass ==
  (\A i \in DOMAIN sent : sent[i].cmd # "PASS")
    => \A p, q \in Passwords : sendCmdLog(p) = sendCmdLog(q)

(* ---------- the POST handler and the folder store ---------- *)

Folders == {"inbox", "sent", "drafts", "spam", "trash"}

\* the folder names a request may carry: the five of the store, one the store
\* does not have, and none
FolderNames == Folders \cup {"archive", ""}

\* an element of a folder: the record of the session with the id generateEmailId
\* gave it and the `folder` property that 'delete' sets
stored(e, id) == [id |-> id, folder |-> "", email |-> e]

\* result.emails with their ids; generateEmailId() (time and random digits) gives
\* every record a value of its own: the i-th record retrieved here has i, the
\* records of earlier fetches have other values
withIds(list) == [i \in DOMAIN list |-> stored(list[i], i)]

\* Array.prototype.reverse
reverse(list) == [i \in DOMAIN list |-> list[Len(list) + 1 - i]]

\* list.findIndex(e => e.id === emailId), 0-based, -1 when there is none
findIndex(list, emailId) ==
  IF \E i \in DOMAIN list : list[i].id = emailId
  THEN (CHOOSE i \in DOMAIN list :
          list[i].id = emailId /\ \A j \in 1..(i - 1) : list[j].id # emailId) - 1
  ELSE -1

\* list.splice(idx, 1) for 0 <= idx < list.length: what is left in the list
splice(list, idx) == SubSeq(list, 1, idx) \o SubSeq(list, idx + 2, Len(list))

\* list.unshift(e)
unshift(list, e) == <<e>> \o list

\* what a case of the handler leaves and answers
Handled(store, success) == [store |-> store, success |-> success]

\* case 'delete': emailStore[sourceFolder] is undefined for a name the store does
\* not have, `undefined === -1` is false and splice of undefined throws; the
\* catch of the handler answers success: false
deleteEmail(store, folder, emailId) ==
  LET sourceFolder == IF folder = "" THEN "inbox" ELSE folder
      At(emailIndex) ==
        IF emailIndex = -1 THEN Handled(store, FALSE)
        ELSE IF sourceFolder = "trash"
        THEN Handled([store EXCEPT !.trash = splice(@, emailIndex)], TRUE)
        ELSE Handled([store EXCEPT
                        ![sourceFolder] = splice(@, emailIndex),
                        !.trash = unshift(@, [store[sourceFolder][emailIndex + 1]
                                                EXCEPT !.folder = sourceFolder])],
                     TRUE)
  IN IF sourceFolder \notin Folders THEN Handled(store, FALSE)
     ELSE At(findIndex(store[sourceFolder], emailId))

\* case 'move' for an email found at idx of a folder the store has: splice runs,
\* then unshift on emailStore[toFolder], which throws when toFolder is not a
\* folder of the store
moveFound(store, fromFolder, toFolder, idx) ==
  IF toFolder \notin Folders
  THEN Handled([store EXCEPT ![fromFolder] = splice(@, idx)], FALSE)
  ELSE Handled([[store EXCEPT ![fromFolder] = splice(@, idx)]
                  EXCEPT ![toFolder] = unshift(@, store[fromFolder][idx + 1])],
               TRUE)

\* case 'move'
moveEmail(store, fromFolder, toFolder, emailId) ==
  IF fromFolder \notin Folders THEN Handled(store, FALSE)
  ELSE IF findIndex(store[fromFolder], emailId) = -1 THEN Handled(store, FALSE)
  ELSE moveFound(store, fromFolder, toFolder, findIndex(store[fromFolder], emailId))

\* an 'empty_folder' that empties every folder of the store
emptyAnyFolder(store, folder) ==
  IF folder \in Folders
  THEN Handled([store EXCEPT ![folder] = <<>>], TRUE)
  ELSE Handled(store, FALSE)

\* case 'empty_folder'
emptyFolder(store, folder) ==
  IF folder \in {"spam", "trash"}
  THEN Handled([store EXCEPT ![folder] = <<>>], TRUE)
  ELSE Handled(store, FALSE)

\* the answer of a request that was handled
Answer(action, success, folder) ==
  [action |-> action, pending |-> FALSE, success |-> success, folder |-> folder]

\* the hosts, the protocol and the credentials of a 'fetch' request
Configs ==
  [imapHost : {"", "imap.example.com"}, popHost : {"", "pop.example.com"},
   protocol : {"", "imap", "pop"}, imapLogin : BOOLEAN, popLogin : BOOLEAN]

\* what case 'fetch' awaits: fetchIMAPEmails ("imap"), fetchPOP3Emails ("fetch") or
\* nothing, when it answers at once
fetchRoute(config) ==
  IF config.imapHost # "" /\ config.protocol \in {"imap", ""}
  THEN IF config.imapLogin THEN "imap" ELSE "none"
  ELSE IF config.popHost # "" /\ (config.protocol = "pop" \/ config.imapHost = "")
  THEN IF config.popLogin THEN "fetch" ELSE "none"
  ELSE "none"

\* the promise the request awaits is settled, and its value
fetchSettled ==
  CASE mode = "fetch" -> resolveCalls > 0
    [] mode = "imap" -> imap.resolveCalls > 0
    [] OTHER -> TRUE
fetchResult ==
  CASE mode = "fetch" -> result
    [] mode = "imap" -> imap.result
    [] OTHER -> Failure("No incoming mail server configured")

\* a case 'fetch' that stores the records as retrieved
storeFetchedInOrder(store, r) ==
  IF r.success THEN [store EXCEPT !.inbox = withIds(r.emails)] ELSE store

\* what case 'fetch' does with the result: (result.emails || []).reverse() into
\* emailStore.inbox
storeFetched(store, r) ==
  IF r.success THEN [store EXCEPT !.inbox = reverse(withIds(r.emails))] ELSE store

\* case 'fetch' after its await
PostFetch ==
  /\ response.pending /\ response.action = "fetch"
  /\ fetchSettled
  /\ emailStore' = storeFetched(emailStore, fetchResult)
  /\ response' = Answer("fetch", fetchResult.success, "")
  /\ UNCHANGED << own, peer, imap, engine >>

\* the ids a request may name: those of the records of this fetch and one no
\* record has
EmailIds == 0..MaxList

\* the folder names of the 'delete' and 'move' requests
RequestFolders == {"inbox", "spam", "trash", "archive", ""}

\* the requests below are handled once the fetch request is answered: the client
\* sends one request at a time
PostDelete ==
  \E folder \in RequestFolders, emailId \in EmailIds :
    /\ ~response.pending
    /\ emailStore' = deleteEmail(emailStore, folder, emailId).store
    /\ response' = Answer("delete", deleteEmail(emailStore, folder, emailId).success, "")
    /\ UNCHANGED << own, peer, imap, engine >>

PostMove ==
  \E folder \in RequestFolders, targetFolder \in RequestFolders, emailId \in EmailIds :
    /\ ~response.pending
    /\ emailStore' = moveEmail(emailStore, folder, targetFolder, emailId).store
    /\ response' = Answer("move", moveEmail(emailStore, folder, targetFolder, emailId).success, "")
    /\ UNCHANGED << own, peer, imap, engine >>

PostEmptyFolder ==
  \E folder \in FolderNames :
    /\ ~response.pending
    /\ emailStore' = emptyFolder(emailStore, folder).store
    /\ response' = Answer("empty_folder", emptyFolder(emailStore, folder).success, folder)
    /\ UNCHANGED << own, peer, imap, engine >>

\* the whole answer to RETR in one chunk, every message of the mailbox being
\* PlainWithDot
ServerSendsMail ==
  /\ CanReceive(S)
  /\ currentStep = "retr"
  /\ sent[Len(sent)].cmd = "RETR"
  /\ currentEmailData = <<>>
  /\ Commit(Receive(S, <<"+OK">> \o StuffAll(PlainWithDot) \o <<".">>))

\* a POP3 fetch on a new server instance, then requests on the store
NextStore ==
  \/ Connect
  \/ TlsSecure
  \/ ServerAccepts
  \/ ServerLists
  \/ ServerSendsMail
  \/ QuitTimerFires
  \/ PostFetch
  \/ PostDelete
  \/ PostMove
  \/ PostEmptyFolder

SpecStore == Init /\ [][NextStore]_vars

\* the store as earlier requests may have left it: empty, or with one record of
\* an earlier fetch in the inbox and one that 'delete' moved to the trash
EarlierStores ==
  { EmptyStore,
    [EmptyStore EXCEPT
       !.inbox = <<stored(parseEmailFromRaw(HtmlOnly), 101)>>,
       !.trash = <<[stored(parseEmailFromRaw(EmptyBody), 102) EXCEPT !.folder = "inbox"]>>] }

\* a 'fetch' request, with any configuration, on a store of EarlierStores
InitPost ==
  \E config \in Configs :
    /\ mode = fetchRoute(config)
    /\ StartSession
    /\ emailStore \in EarlierStores
    /\ response = Awaiting

\* the server answers '-ERR' to the connection, USER, PASS or LIST
ServerRejects ==
  /\ CanReceive(S)
  /\ currentStep \in {"greeting", "user", "pass", "list"}
  /\ Commit(Receive(S, <<"-ERR">>))

\* the session of either kind, with the ways it fails, and the answer of the
\* request
NextPost ==
  \/ Connect
  \/ TlsSecure
  \/ ServerAccepts
  \/ ServerRejects
  \/ ServerLists
  \/ ServerListsNothing
  \/ ServerSendsMessage
  \/ QuitTimerFires
  \/ EmptyTimerFires
  \/ SocketError
  \/ FetchTimeout
  \/ NextImap
  \/ PostFetch

SpecPost == InitPost /\ [][NextPost]_vars

(* ---------- the claims on the folder store ---------- *)

\* the ids of the emails of a store, and how many elements of it have an id
AllIds(store) == UNION {{store[f][i].id : i \in DOMAIN store[f]} : f \in Folders}
FolderCount(store, f, id) == Cardinality({i \in DOMAIN store[f] : store[f][i].id = id})
Copies(store, id) ==
  FolderCount(store, "inbox", id) + FolderCount(store, "sent", id)
    + FolderCount(store, "drafts", id) + FolderCount(store, "spam", id)
    + FolderCount(store, "trash", id)

\* this step is the handling of a request of the given action
Handles(action) ==
  /\ response'.action = action
  /\ response' # response \/ emailStore' # emailStore

\* C35: a 'move' or 'delete' that answers success = false leaves the store as it
\* was; one that answers success = true keeps every email in exactly one folder,
\* but for a delete on the trash, which removes one email of the trash and
\* nothing else
C35_MoveDeleteConserve ==
  [][ Handles("move") \/ Handles("delete")
        => IF ~response'.success
           THEN emailStore' = emailStore
           ELSE \/ /\ AllIds(emailStore') = AllIds(emailStore)
                   /\ \A id \in AllIds(emailStore') : Copies(emailStore', id) = 1
                \/ /\ response'.action = "delete"
                   /\ Len(emailStore'.trash) = Len(emailStore.trash) - 1
                   /\ AllIds(emailStore') \subseteq AllIds(emailStore)
                   /\ \A f \in Folders \ {"trash"} : emailStore'[f] = emailStore[f] ]_vars

\* a 'move' or 'delete' that answers success = true conserves the emails, and no
\* id is ever in two places
C35_SuccessConserves ==
  /\ [][ (Handles("move") \/ Handles("delete")) /\ response'.success
           => \/ AllIds(emailStore') = AllIds(emailStore)
              \/ /\ response'.action = "delete"
                 /\ Len(emailStore'.trash) = Len(emailStore.trash) - 1
                 /\ \A f \in Folders \ {"trash"} : emailStore'[f] = emailStore[f] ]_vars
  /\ [](\A id \in AllIds(emailStore) : Copies(emailStore, id) = 1)

\* C37: an 'empty_folder' request that names spam or trash answers success = true,
\* leaves that folder empty and the four others as they were; one that names
\* anything else answers success = false and leaves every folder as it was
C37_EmptyFolderFrame ==
  [][ Handles("empty_folder")
        => IF response'.folder \in {"spam", "trash"}
           THEN /\ response'.success
                /\ emailStore'[response'.folder] = <<>>
                /\ \A f \in Folders \ {response'.folder} : emailStore'[f] = emailStore[f]
           ELSE /\ ~response'.success
                /\ emailStore' = emailStore ]_vars

\* two records were fetched, the spam folder was emptied, one record is left in
\* the inbox
C37_Witness ==
  /\ response = Answer("empty_folder", TRUE, "spam")
  /\ Len(emails) = 2
  /\ Len(emailStore.inbox) = 1 /\ emailStore.spam = <<>> /\ emailStore.trash = <<>>

\* the records the session pushed to its `emails`, in the order of the pushes
retrieved ==
  CASE mode = "fetch" -> emails
    [] mode = "imap" -> imap.emails
    [] OTHER -> <<>>

\* C36: when a 'fetch' request is answered with success = false the store is as
\* it was; when it is answered with success = true the session had succeeded,
\* the inbox holds the records the session retrieved, last one first, and the
\* four other folders are as they were. The answer is success = true exactly
\* when the session resolved with success
C36_FetchFrame ==
  /\ [][ Handles("fetch")
           => IF response'.success
              THEN /\ mode \in {"fetch", "imap"}
                   /\ Len(emailStore'.inbox) = Len(retrieved)
                   /\ \A i \in DOMAIN retrieved :
                        /\ emailStore'.inbox[Len(retrieved) + 1 - i].email = retrieved[i]
                        /\ emailStore'.inbox[Len(retrieved) + 1 - i].id = i
                   /\ \A f \in Folders \ {"inbox"} : emailStore'[f] = emailStore[f]
              ELSE emailStore' = emailStore ]_vars
  /\ [](response.action = "fetch" /\ ~response.pending
          => (response.success <=> fetchResult.success))

\* a fetch of two different records was stored, last one first, in place of the
\* record an earlier fetch had left in the inbox; the trash is as it was
C36_Witness ==
  /\ response = Answer("fetch", TRUE, "")
  /\ Len(emailStore.inbox) = 2
  /\ emailStore.inbox[1].id = 2 /\ emailStore.inbox[2].id = 1
  /\ emailStore.inbox[1].email # emailStore.inbox[2].email
  /\ emailStore.inbox[1].email = retrieved[2]
  /\ emailStore.trash # <<>>

(* ---------- EmailEngine: the outbound queue ---------- *)

MaxQueued == 1
MaxRuns == 3
MaxMinutes == 6

\* maxAttempts of a QueuedEmail, and the unit of the backoff in ms
maxAttempts == 3
BackoffUnitMs == 60000

RECURSIVE pow2(_)
\* Math.pow(2, n)
pow2(n) == IF n = 0 THEN 1 ELSE 2 * pow2(n - 1)

\* the object queueEmail builds; sends counts the calls of send made for it
QueuedEmail(scheduledAt) ==
  [attempts |-> 0, maxAttempts |-> maxAttempts, scheduledAt |-> scheduledAt,
   status |-> "pending", sends |-> 0]

\* queueEmail(message, scheduledAt): scheduledAt || new Date(), -1 standing for
\* a call without scheduledAt
queueEmail(e, scheduledAt) ==
  [e EXCEPT !.mails = Append(@, QueuedEmail(IF scheduledAt = -1 THEN e.now
                                            ELSE scheduledAt)),
            !.arrays[e.queue] = Append(@, Len(e.mails) + 1)]

\* a call of processQueue: the array its loop iterates, the position of the
\* email whose send it awaits, and its `now`
Run(arr, startedAt) == [arr |-> arr, pos |-> 0, now |-> startedAt, live |-> TRUE]
Returned == [arr |-> 0, pos |-> 0, now |-> 0, live |-> FALSE]

RECURSIVE nextDue(_, _, _)
\* the first position from i on of run r's array whose email the loop does not
\* skip (status 'pending', scheduledAt not after now), 0 when there is none
nextDue(e, r, i) ==
  IF i > Len(e.arrays[r.arr]) THEN 0
  ELSE IF /\ e.mails[e.arrays[r.arr][i]].status = "pending"
          /\ ~(e.mails[e.arrays[r.arr][i]].scheduledAt > r.now)
       THEN i
       ELSE nextDue(e, r, i + 1)

RECURSIVE withoutSent(_, _)
\* list.filter((e) => e.status !== 'sent')
withoutSent(e, list) ==
  IF list = <<>> THEN <<>>
  ELSE IF e.mails[Head(list)].status # "sent"
       THEN <<Head(list)>> \o withoutSent(e, Tail(list))
       ELSE withoutSent(e, Tail(list))

\* the arrays that the loop of a run other than k iterates
iterated(e, k) == {e.runs[r].arr : r \in {r \in DOMAIN e.runs : r # k /\ e.runs[r].live}}

\* the end of processQueue: this.queue = this.queue.filter(...), return; an array
\* that nothing refers to any more is garbage and is kept as <<>>
finishRun(e, k) ==
  [e EXCEPT !.arrays = [a \in 1..(Len(e.arrays) + 1) |->
                          IF a = Len(e.arrays) + 1 THEN withoutSent(e, e.arrays[e.queue])
                          ELSE IF a \in iterated(e, k) THEN e.arrays[a]
                          ELSE <<>>],
            !.queue = Len(e.arrays) + 1,
            !.runs[k] = Returned]

\* a loop body that does not mark the email as being processed
startSendUnmarked(e, k, j) ==
  [e EXCEPT !.mails[e.arrays[e.runs[k].arr][j]].sends = @ + 1,
            !.runs[k].pos = j]

\* the body of the loop for the email at position j up to `await this.send`
startSend(e, k, j) ==
  [e EXCEPT !.mails[e.arrays[e.runs[k].arr][j]].status = "processing",
            !.mails[e.arrays[e.runs[k].arr][j]].sends = @ + 1,
            !.runs[k].pos = j]

\* the loop of run k from position i on, up to its next await or to its return
continueRun(e, k, i) ==
  LET At(j) == IF j = 0 THEN finishRun(e, k) ELSE startSend(e, k, j)
  IN At(nextDue(e, e.runs[k], i))

\* processQueue up to its first await
processQueue(e) ==
  continueRun([e EXCEPT !.runs = Append(@, Run(e.queue, e.now))], Len(e.runs) + 1, 1)

\* the loop body after the await, for email m and the result of send
afterSend(e, m, success) ==
  IF success
  THEN [e EXCEPT !.mails[m].status = "sent"]
  ELSE IF e.mails[m].attempts + 1 >= e.mails[m].maxAttempts
  THEN [e EXCEPT !.mails[m].attempts = @ + 1, !.mails[m].status = "failed"]
  ELSE [e EXCEPT !.mails[m].attempts = @ + 1, !.mails[m].status = "pending",
                 !.mails[m].scheduledAt =
                    e.now + pow2(e.mails[m].attempts + 1) * BackoffUnitMs]

\* the send awaited by run k settles: the rest of the loop body, then the loop
settle(e, k, success) ==
  continueRun(afterSend(e, e.arrays[e.runs[k].arr][e.runs[k].pos], success),
              k, e.runs[k].pos + 1)

QueueEmail ==
  \E scheduledAt \in {-1, engine.now + BackoffUnitMs} :
    /\ mode = "queue"
    /\ Len(engine.mails) < MaxQueued
    /\ engine' = queueEmail(engine, scheduledAt)
    /\ UNCHANGED << own, peer, imap, post >>

ProcessQueue ==
  /\ mode = "queue"
  /\ Len(engine.runs) < MaxRuns
  /\ engine' = processQueue(engine)
  /\ UNCHANGED << own, peer, imap, post >>

\* send resolves with success or with a failure (rate limit, provider error,
\* exception caught in send)
SendSettles ==
  \E k \in 1..MaxRuns, success \in BOOLEAN :
    /\ mode = "queue"
    /\ k <= Len(engine.runs)
    /\ IF k <= Len(engine.runs) THEN engine.runs[k].live ELSE FALSE
    /\ engine' = settle(engine, k, success)
    /\ UNCHANGED << own, peer, imap, post >>

\* a minute passes
EngineTick ==
  /\ mode = "queue"
  /\ engine.now < MaxMinutes * BackoffUnitMs
  /\ engine' = [engine EXCEPT !.now = @ + BackoffUnitMs]
  /\ UNCHANGED << own, peer, imap, post >>

\* a new engine; the variables of the inbox route are not used
InitQueue == mode = "queue" /\ encryption = "none" /\ Start

NextQueue ==
  \/ QueueEmail
  \/ ProcessQueue
  \/ SendSettles
  \/ EngineTick

SpecQueue == InitQueue /\ [][NextQueue]_vars

\* C38: for every queued email the calls of send are at most maxAttempts, over
\* all runs of processQueue; attempts counts the failed ones, and one more call
\* was made exactly when the email is being sent or was sent; the status is
\* 'failed' exactly when attempts has reached maxAttempts; an email that is
\* 'sent' or 'failed' never changes again (no further send); an email that goes
\* back to 'pending' gets a scheduledAt later than the one it had and later than
\* the clock; and when no run is in progress no 'sent' email is in the queue
C38_QueueAttempts ==
  /\ [](\A m \in DOMAIN engine.mails :
          /\ engine.mails[m].sends <= maxAttempts
          /\ engine.mails[m].attempts <= maxAttempts
          /\ engine.mails[m].sends = engine.mails[m].attempts
               + (IF engine.mails[m].status \in {"processing", "sent"} THEN 1 ELSE 0)
          /\ engine.mails[m].status = "failed" <=> engine.mails[m].attempts = maxAttempts)
  /\ [][\A m \in DOMAIN engine.mails :
          /\ engine.mails[m].status \in {"sent", "failed"} => engine'.mails[m] = engine.mails[m]
          /\ engine.mails[m].status = "processing" /\ engine'.mails[m].status = "pending"
               => /\ engine'.mails[m].scheduledAt > engine.mails[m].scheduledAt
                  /\ engine'.mails[m].scheduledAt > engine.now]_vars
  /\ []((\A k \in DOMAIN engine.runs : ~engine.runs[k].live)
          => \A i \in DOMAIN engine.arrays[engine.queue] :
               engine.mails[engine.arrays[engine.queue][i]].status # "sent")

\* an email failed three times, in three runs, and is 'failed'; it is still in
\* the queue and no run is in progress
C38_Witness ==
  /\ mode = "queue" /\ Len(engine.mails) >= 1
  /\ engine.mails[1].status = "failed" /\ engine.mails[1].sends = 3
  /\ engine.mails[1].attempts = 3
  /\ engine.arrays[engine.queue][1] = 1
  /\ \A k \in DOMAIN engine.runs : ~engine.runs[k].live


====
